---- MODULE Spec2Model ----
(***************************************************************************)
(* ssm-proxy: lifecycle supervisor (runStart), egress tunnel (SSHTunnel),  *)
(* route manager (Router), OS DNS integration (MacOSResolverConfig),       *)
(* session record and the TUN-to-SOCKS connection tracker (TunToSOCKS).    *)
(*                                                                         *)
(* The specifications share the variables:                                 *)
(*   Spec          the whole run of `ssm-proxy start`, from runStart's     *)
(*                 first step to process exit, with signals, the tunnel    *)
(*                 child, the health monitor and the tracker's tasks;      *)
(*   SpecShutdown  the shutdown sequence of a run that is up, with the     *)
(*                 tracker handling segments and egress chunks meanwhile;  *)
(*                 LiveShutdown adds the fairness of the Go scheduler;     *)
(*   SpecFwd       the connection tracker alone, started on an open        *)
(*                 interface, fed with TCP segments and egress chunks;     *)
(*   SpecData      the tracker relaying data of established flows;         *)
(*   SpecEvict     the tracker under a clock, with the idle eviction;      *)
(*   SpecDispatch  the tracker reading TCP, UDP and other datagrams;       *)
(*   SpecDns       the DNS resolver's suffix filter applied to a query;    *)
(*   SpecDnsPath   the tracker handing UDP datagrams of port 53 to the     *)
(*                 resolver, with well-formed and malformed queries;       *)
(*   SpecDnsCache  the resolver's cache under a clock;                     *)
(*   SpecOsDns     MacOSResolverConfig's Setup followed by Cleanup;        *)
(*   SpecRouter    the Router adding routes and cleaning up twice;         *)
(*   SpecMonitor   a run that is up with monitorTunnelHealth active;       *)
(*                 LiveMonitor adds the fairness of the Go scheduler;      *)
(*   SpecBuilders  buildTCPPacket and buildUDPPacket, byte by byte;        *)
(*   SpecOffset    the tracker fed with TCP segments of any data offset;   *)
(*   SpecTunnel    SSHTunnel alone, Start called by an owner at any time;  *)
(*   SpecNetmask   the netmask of a route when added and when deleted.     *)
(***************************************************************************)
EXTENDS Integers, Sequences, FiniteSets, TLC

(***************************************************************************)
(* Bounds of the model                                                     *)
(***************************************************************************)
MaxCidrs == 2
MaxKeys == 2
MaxRetriesCap == 1
MaxPackets == 2
MaxNow == 24
TickJump == 6
MaxChunks == 1
MaxDataPackets == 3
MaxDataChunks == 2
MaxClock == 23
MaxEvictEvents == 3
MaxDispatchPackets == 3
MaxSuffixes == 2
MaxQnameLen == 4
MaxDnsPackets == 2
MaxCachePackets == 2
MaxDnsClock == 9
MaxAnswerLen == 2
MaxOsDomains == 2
MaxRouterAdds == 3
MaxPayloadLen == 3
MaxPrefix == 33
MaxRawPackets == 3

(***************************************************************************)
(* Program constants                                                       *)
(***************************************************************************)
tcpFIN == 1
tcpSYN == 2
tcpRST == 4
tcpPSH == 8
tcpACK == 16
\* time is counted in units of 15 s: connTimeout is 5 minutes and
\* cleanupTicker 30 s
connTimeout == 20
cleanupTicker == 2
\* the resolver's cache: life of an entry and period of the sweep, in the
\* same unit
cacheTTL == 4
cacheSweep == 4

(***************************************************************************)
(* uint32 values are pairs <<high 16 bits, low 16 bits>>                   *)
(***************************************************************************)
Two16 == 65536

U32(hi, lo) == <<hi, lo>>

\* x + n in uint32, for 0 <= n < 2^16
Add32(x, n) == <<(x[1] + ((x[2] + n) \div Two16)) % Two16, (x[2] + n) % Two16>>

VARIABLES
  \* configuration (flags of the start command)
  cidrBlocks, dnsResolver, dnsDomains, autoReconnect, maxRetries,
  \* environment: does the user have a key in ~/.ssh; the files of
  \* /etc/resolver as they were before the run
  hasUserKey, fsBefore,
  \* what the last call of a Router method returned to a caller that looks
  \* at it
  routerRet,
  \* the packet builders on their own: the arguments of a call and the bytes
  \* it returned
  ckIn, ckOut,
  \* runStart
  pc, deferStack, result, failStep, teardownLog,
  ctxCancelled, sigNotify, sigCh, sigDelivered,
  \* TunDevice
  tunOpen,
  \* Router and the kernel routing table
  routeIdx, routes, kernelRoutes, deleteFailed,
  \* MacOSResolverConfig and /etc/resolver
  macOSResolver, created, fsFile, fsBackup,
  \* session.Manager
  sessionFile,
  \* SSHTunnel
  running, keyPair, keysOnDisk, nextKey, child, tunnelStopCh, stoppedCh,
  tMu, startCaller, monWaiting, monClosing, stopVia,
  \* monitorTunnelHealth
  hmPc, retries,
  \* TunToSOCKS
  stopCh, rpPc, rpPkt, ccPc, connections, conns, emitted,
  packetsRead, chunksRead, now,
  \* dns.Resolver: configured suffixes, the QNAME of the captured query and
  \* the answer of ShouldHandle ("none" before the call)
  resolverDomains, qname, handled,
  \* dns.Resolver: the response cache and the upstream connections opened;
  \* the datagram given to HandleUDPPacket and what the call returned
  dnsCache, upstreamConns, udpPkt, udpResult,
  \* netmask check: the block of a route, the result of parseCIDR when the
  \* route was added and the netmask of the `route delete` that removed it
  nmCidr, nmAdd, nmDel

nmVars == <<nmCidr, nmAdd, nmDel>>
auxVars == <<nmVars>>
dqVars == <<dnsCache, upstreamConns, udpPkt, udpResult>>
rsVars == <<resolverDomains, qname, handled, dqVars>>
ckVars == <<ckIn, ckOut>>
cfgVars == <<cidrBlocks, dnsResolver, dnsDomains, autoReconnect, maxRetries, hasUserKey, fsBefore, routerRet, ckVars, auxVars, rsVars>>
supVars == <<pc, deferStack, result, failStep, teardownLog>>
sigVars == <<sigNotify, sigCh, sigDelivered>>
routeVars == <<routeIdx, routes, kernelRoutes, deleteFailed>>
dnsVars == <<macOSResolver, created, fsFile, fsBackup>>
tunnelVars == <<running, keyPair, keysOnDisk, nextKey, child, tunnelStopCh, stoppedCh, tMu, startCaller, monWaiting, monClosing, stopVia>>
hmVars == <<hmPc, retries>>
fwdVars == <<stopCh, rpPc, rpPkt, ccPc, connections, conns, emitted, packetsRead, chunksRead, now>>

vars == <<cfgVars, supVars, ctxCancelled, sigVars, tunOpen, routeVars, dnsVars, sessionFile, tunnelVars, hmVars, fwdVars>>

(***************************************************************************)
(* Routing: CIDR blocks and Router                                         *)
(***************************************************************************)
\* a CIDR block "network/prefix"; the start command's validateCIDR accepts
\* any text with one slash and a four-part address, so the prefix may be
\* out of range
Cidr(n, p) == [network |-> n, prefix |-> p]

\* the i-th valid block of the model, and one whose prefix is out of range
ValidCidr(i) == Cidr(i, 8 + i)

InvalidCidr == Cidr(0, 99)

\* the table of prefixToNetmask: a netmask is its four decimal numbers
masks ==
  <<  <<128, 0, 0, 0>>, <<192, 0, 0, 0>>, <<224, 0, 0, 0>>, <<240, 0, 0, 0>>,
      <<248, 0, 0, 0>>, <<252, 0, 0, 0>>, <<254, 0, 0, 0>>, <<255, 0, 0, 0>>,
      <<255, 128, 0, 0>>, <<255, 192, 0, 0>>, <<255, 224, 0, 0>>, <<255, 240, 0, 0>>,
      <<255, 248, 0, 0>>, <<255, 252, 0, 0>>, <<255, 254, 0, 0>>, <<255, 255, 0, 0>>,
      <<255, 255, 128, 0>>, <<255, 255, 192, 0>>, <<255, 255, 224, 0>>, <<255, 255, 240, 0>>,
      <<255, 255, 248, 0>>, <<255, 255, 252, 0>>, <<255, 255, 254, 0>>, <<255, 255, 255, 0>>,
      <<255, 255, 255, 128>>, <<255, 255, 255, 192>>, <<255, 255, 255, 224>>, <<255, 255, 255, 240>>,
      <<255, 255, 255, 248>>, <<255, 255, 255, 252>>, <<255, 255, 255, 254>>, <<255, 255, 255, 255>>  >>

\* prefixToNetmask: the table has the keys "1" .. "32"; anything else gives
\* "" (here the empty sequence)
prefixToNetmask(p) == IF p \in DOMAIN masks THEN masks[p] ELSE <<>>

\* parseCIDR succeeds when the netmask is not ""
parseCIDR(c) == prefixToNetmask(c.prefix) # <<>>

\* the stop command's cidrPrefixToMask: one netmask, whatever the prefix
cidrPrefixToMask(p) == <<255, 255, 255, 0>>

\* the stop command's parseCIDRForRoute: eight prefixes have their netmask
\* in the switch, every other one goes to cidrPrefixToMask; no error for a
\* block with one slash
parseCIDRForRoute(c) ==
  CASE c.prefix = 8 -> <<255, 0, 0, 0>>
    [] c.prefix = 12 -> <<255, 240, 0, 0>>
    [] c.prefix = 16 -> <<255, 255, 0, 0>>
    [] c.prefix = 20 -> <<255, 255, 240, 0>>
    [] c.prefix = 24 -> <<255, 255, 255, 0>>
    [] c.prefix = 28 -> <<255, 255, 255, 240>>
    [] c.prefix = 30 -> <<255, 255, 255, 252>>
    [] c.prefix = 32 -> <<255, 255, 255, 255>>
    [] OTHER -> cidrPrefixToMask(c.prefix)

\* Router.Cleanup, kernel side: `route delete` for every tracked route;
\* the routes in `failing` are those whose delete exits with an error other
\* than "not in table"
CleanupKernel_NoDelete(kr, tracked, failing) == kr

CleanupKernel(kr, tracked, failing) == kr \ (tracked \ failing)

\* Router.Cleanup, tracking side, had it kept the routes it could not
\* delete
CleanupTracked_KeepFailed(tracked, failing) == failing

\* Router.Cleanup, tracking side: r.routes = make(map[string]string),
\* whatever the deletes returned
CleanupTracked(tracked, failing) == {}

(***************************************************************************)
(* OS DNS integration: /etc/resolver/<base> and its backup                 *)
(***************************************************************************)
Pattern(lead, body, trail) == [lead |-> lead, body |-> body, trail |-> trail]

\* does the text contain a dot
ContainsDot(body) == body \in {"corp.example", "db.example"}

Bases == {"corp.example"}

\* extractBaseDomain: trim one leading and one trailing dot; "" when the
\* rest is empty or has no dot
extractBaseDomain(p) == IF p.body = "" \/ ~ContainsDot(p.body) THEN "" ELSE p.body

DnsState(f, b, c, e) == [file |-> f, backup |-> b, created |-> c, err |-> e]

\* one entry of MacOSResolverConfig.Cleanup's loop
CleanupEntry(st, e) ==
  IF e.kind = "backup"
  THEN IF st.backup[e.base] = "absent"
       THEN st
       ELSE [st EXCEPT !.file[e.base] = st.backup[e.base], !.backup[e.base] = "absent"]
  ELSE [st EXCEPT !.file[e.base] = "absent"]

RECURSIVE CleanupFrom(_, _)
CleanupFrom(st, i) ==
  IF i > Len(st.created) THEN st
  ELSE LET s2 == CleanupEntry(st, st.created[i])
       IN CleanupFrom([s2 EXCEPT !.created = st.created], i + 1)

\* MacOSResolverConfig.Cleanup
DnsCleanup(st) ==
  IF Len(st.created) = 0 THEN st
  ELSE [CleanupFrom(st, 1) EXCEPT !.created = <<>>]

\* one iteration of MacOSResolverConfig.Setup's loop; writeOK is the
\* outcome of os.WriteFile
SetupDomain(st, domain, writeOK) ==
  LET base == extractBaseDomain(domain) IN
  IF base = "" THEN st
  ELSE LET st1 == IF st.file[base] # "absent"
                  THEN [st EXCEPT !.backup[base] = st.file[base],
                                  !.file[base] = "absent",
                                  !.created = Append(st.created, [kind |-> "backup", base |-> base])]
                  ELSE st
       IN IF ~writeOK
          THEN [DnsCleanup(st1) EXCEPT !.err = TRUE]
          ELSE [st1 EXCEPT !.file[base] = "ssm",
                           !.created = Append(st1.created, [kind |-> "file", base |-> base])]

RECURSIVE SetupFrom(_, _, _, _)
SetupFrom(st, domains, i, failAt) ==
  IF i > Len(domains) \/ st.err THEN st
  ELSE SetupFrom(SetupDomain(st, domains[i], i # failAt), domains, i + 1, failAt)

\* MacOSResolverConfig.Setup; failAt is the index of the domain whose
\* WriteFile fails (0: none)
DnsSetup(st, domains, failAt) ==
  IF Len(domains) = 0 THEN st ELSE SetupFrom(st, domains, 1, failAt)

(***************************************************************************)
(* Process                                                                 *)
(***************************************************************************)
\* the process is running: runStart has not returned, no signal has ended
\* it and no goroutine has panicked
procAlive == pc \notin {"returned", "killed", "panicked"}

\* `return fmt.Errorf(...)` in runStart: the deferred calls run next
ReturnErr(step) ==
  /\ pc' = "defers"
  /\ result' = "error"
  /\ failStep' = step
  /\ UNCHANGED <<deferStack, teardownLog>>

(***************************************************************************)
(* SSHTunnel                                                               *)
(***************************************************************************)
\* a Cleanup that leaves the key files in place
KeyCleanup_Keep(disk, kp) == disk

\* SSHKeyPair.Cleanup of t.keyPair (nil: nothing)
KeyCleanup(disk, kp) == IF kp # 0 THEN disk \ {kp} ELSE disk

\* how Start hands its result to its caller: runStart (line 233) or
\* monitorTunnelHealth (line 471)
StartReturns(caller, ok) ==
  IF caller = "sup"
  THEN /\ IF ok
          THEN /\ pc' = "createTUN"
               /\ deferStack' = <<"sshTunnel.Stop">> \o deferStack
               /\ UNCHANGED <<result, failStep, teardownLog>>
          ELSE ReturnErr("startTunnel")
       /\ UNCHANGED hmVars
  ELSE /\ hmPc' = "select"
       /\ retries' = IF ok THEN 0 ELSE retries
       /\ UNCHANGED supVars

\* SSHTunnel.Start up to cmd.Start(): lock, running check, key, key push,
\* spawn of the ssh child
StartBegin(caller) ==
  /\ procAlive
  /\ tMu = "free"
  /\ \/ caller = "sup" /\ pc = "startTunnel"
     \/ caller = "hm" /\ hmPc = "sleep"
  /\ IF running
     THEN /\ StartReturns(caller, FALSE)
          /\ UNCHANGED tunnelVars
     ELSE \E outcome \in {"keyErr", "sendErr", "spawnErr", "spawned"} :
            LET gen == ~hasUserKey /\ outcome # "keyErr"
                kp == IF gen THEN nextKey ELSE keyPair
                disk == IF gen THEN keysOnDisk \cup {nextKey} ELSE keysOnDisk
            IN /\ nextKey <= MaxKeys
               /\ ctxCancelled => outcome # "spawned"
               /\ keyPair' = kp
               /\ nextKey' = nextKey + 1
               /\ IF outcome = "spawned"
                  THEN /\ keysOnDisk' = disk
                       /\ child' = "running"
                       /\ tMu' = "Start"
                       /\ startCaller' = caller
                       /\ IF caller = "sup"
                          THEN pc' = "inStart" /\ UNCHANGED <<deferStack, result, failStep, teardownLog, hmVars>>
                          ELSE hmPc' = "inStart" /\ UNCHANGED <<retries, supVars>>
                  ELSE /\ keysOnDisk' = IF outcome = "keyErr" THEN disk ELSE KeyCleanup(disk, kp)
                       /\ StartReturns(caller, FALSE)
                       /\ UNCHANGED <<child, tMu, startCaller>>
               /\ UNCHANGED <<running, tunnelStopCh, stoppedCh, monWaiting, monClosing, stopVia>>
  /\ UNCHANGED <<cfgVars, ctxCancelled, sigVars, tunOpen, routeVars, dnsVars, sessionFile, fwdVars>>

\* SSHTunnel.Start from waitForSOCKS on: the port answers (the child is up)
\* or the wait fails (timeout, cancelled context)
StartFinish ==
  /\ procAlive
  /\ tMu = "Start"
  /\ \E ok \in BOOLEAN :
       /\ ok => child = "running"
       /\ IF ok
          THEN /\ running' = TRUE
               /\ monWaiting' = TRUE
               /\ UNCHANGED <<child, keysOnDisk>>
          ELSE /\ child' = "exited"
               /\ keysOnDisk' = KeyCleanup(keysOnDisk, keyPair)
               /\ UNCHANGED <<running, monWaiting>>
       /\ StartReturns(startCaller, ok)
  /\ tMu' = "free"
  /\ startCaller' = "none"
  /\ UNCHANGED <<keyPair, nextKey, tunnelStopCh, stoppedCh, monClosing, stopVia>>
  /\ UNCHANGED <<cfgVars, ctxCancelled, sigVars, tunOpen, routeVars, dnsVars, sessionFile, fwdVars>>

\* the ssh child exits: on its own, or killed by exec.CommandContext when
\* the context is cancelled
ChildExit ==
  /\ procAlive
  /\ child = "running"
  /\ child' = "exited"
  /\ UNCHANGED <<running, keyPair, keysOnDisk, nextKey, tunnelStopCh, stoppedCh, tMu, startCaller, monWaiting, monClosing, stopVia>>
  /\ UNCHANGED <<cfgVars, supVars, ctxCancelled, sigVars, tunOpen, routeVars, dnsVars, sessionFile, hmVars, fwdVars>>

\* SSHTunnel.monitor: cmd.Wait() returned, running = false under the lock
MonitorExit ==
  /\ procAlive
  /\ monWaiting
  /\ child = "exited"
  /\ tMu = "free"
  /\ running' = FALSE
  /\ monWaiting' = FALSE
  /\ monClosing' = monClosing + 1
  /\ UNCHANGED <<keyPair, keysOnDisk, nextKey, child, tunnelStopCh, stoppedCh, tMu, startCaller, stopVia>>
  /\ UNCHANGED <<cfgVars, supVars, ctxCancelled, sigVars, tunOpen, routeVars, dnsVars, sessionFile, hmVars, fwdVars>>

\* SSHTunnel.monitor: the deferred close(t.stoppedCh); closing a closed
\* channel panics and ends the process
MonitorClose ==
  /\ procAlive
  /\ monClosing > 0
  /\ monClosing' = monClosing - 1
  /\ IF stoppedCh
     THEN pc' = "panicked" /\ UNCHANGED <<stoppedCh, deferStack, result, failStep, teardownLog>>
     ELSE stoppedCh' = TRUE /\ UNCHANGED supVars
  /\ UNCHANGED <<running, keyPair, keysOnDisk, nextKey, child, tunnelStopCh, tMu, startCaller, monWaiting, stopVia>>
  /\ UNCHANGED <<cfgVars, ctxCancelled, sigVars, tunOpen, routeVars, dnsVars, sessionFile, hmVars, fwdVars>>

\* SSHTunnel.Stop up to the wait: lock; not running: return; else close
\* stopCh and kill the child
TunnelStopBegin ==
  /\ pc = "defers"
  /\ deferStack # <<>>
  /\ Head(deferStack) = "sshTunnel.Stop"
  /\ tMu = "free"
  /\ deferStack' = Tail(deferStack)
  /\ teardownLog' = Append(teardownLog, "sshTunnel.Stop")
  /\ IF ~running
     THEN UNCHANGED <<pc, tunnelStopCh, child, tMu>>
     ELSE /\ pc' = "tunnelStopWait"
          /\ tunnelStopCh' = TRUE
          /\ child' = "exited"
          /\ tMu' = "Stop"
  /\ UNCHANGED <<result, failStep>>
  /\ UNCHANGED <<running, keyPair, keysOnDisk, nextKey, stoppedCh, startCaller, monWaiting, monClosing, stopVia>>
  /\ UNCHANGED <<cfgVars, ctxCancelled, sigVars, tunOpen, routeVars, dnsVars, sessionFile, hmVars, fwdVars>>

\* SSHTunnel.Stop from the wait on: stoppedCh is closed or 5 s elapsed;
\* then the key cleanup, running = false, unlock
TunnelStopFinish ==
  /\ pc = "tunnelStopWait"
  /\ \E via \in {"stoppedCh", "timeout"} :
       /\ via = "stoppedCh" => stoppedCh
       /\ stopVia' = via
  /\ keysOnDisk' = KeyCleanup(keysOnDisk, keyPair)
  /\ keyPair' = 0
  /\ running' = FALSE
  /\ tMu' = "free"
  /\ pc' = "defers"
  /\ UNCHANGED <<deferStack, result, failStep, teardownLog>>
  /\ UNCHANGED <<nextKey, child, tunnelStopCh, stoppedCh, startCaller, monWaiting, monClosing>>
  /\ UNCHANGED <<cfgVars, ctxCancelled, sigVars, tunOpen, routeVars, dnsVars, sessionFile, hmVars, fwdVars>>

(***************************************************************************)
(* monitorTunnelHealth                                                     *)
(***************************************************************************)
\* case <-ctx.Done() of the outer select
HmCtxDone ==
  /\ procAlive
  /\ hmPc = "select"
  /\ ctxCancelled
  /\ hmPc' = "done"
  /\ UNCHANGED <<retries, cfgVars, supVars, ctxCancelled, sigVars, tunOpen, routeVars, dnsVars, sessionFile, tunnelVars, fwdVars>>

\* case <-ticker.C: the context checks, IsRunning, the retry budget
HmTick ==
  /\ procAlive
  /\ hmPc = "select"
  /\ tMu = "free"
  /\ IF ctxCancelled
     THEN hmPc' = "done" /\ UNCHANGED retries
     ELSE IF running
          THEN hmPc' = "select" /\ retries' = 0
          ELSE IF maxRetries > 0 /\ retries >= maxRetries
               THEN hmPc' = "done" /\ UNCHANGED retries
               ELSE /\ retries < MaxRetriesCap
                    /\ retries' = retries + 1
                    /\ hmPc' = "sleep"
  /\ UNCHANGED <<cfgVars, supVars, ctxCancelled, sigVars, tunOpen, routeVars, dnsVars, sessionFile, tunnelVars, fwdVars>>

(***************************************************************************)
(* runStart: startup                                                       *)
(***************************************************************************)
\* steps 1-2: AWS client, instance lookup and state checks; no resource yet
SupFindInstance ==
  /\ pc = "init"
  /\ \E ok \in BOOLEAN :
       IF ok THEN pc' = "startTunnel" /\ UNCHANGED <<deferStack, result, failStep, teardownLog>>
       ELSE ReturnErr("findInstance")
  /\ UNCHANGED <<cfgVars, ctxCancelled, sigVars, tunOpen, routeVars, dnsVars, sessionFile, tunnelVars, hmVars, fwdVars>>

\* step 4: tunnel.CreateTUN
SupCreateTUN ==
  /\ pc = "createTUN"
  /\ \E ok \in BOOLEAN :
       IF ok THEN /\ tunOpen' = "open"
                  /\ pc' = "configureTUN"
                  /\ UNCHANGED <<deferStack, result, failStep, teardownLog>>
       ELSE ReturnErr("createTUN") /\ UNCHANGED tunOpen
  /\ UNCHANGED <<cfgVars, ctxCancelled, sigVars, routeVars, dnsVars, sessionFile, tunnelVars, hmVars, fwdVars>>

\* step 4: tun.Configure
SupConfigureTUN ==
  /\ pc = "configureTUN"
  /\ \E ok \in BOOLEAN :
       IF ok THEN pc' = "addRoutes" /\ UNCHANGED <<deferStack, result, failStep, teardownLog>>
       ELSE ReturnErr("configureTUN")
  /\ UNCHANGED <<cfgVars, ctxCancelled, sigVars, tunOpen, routeVars, dnsVars, sessionFile, tunnelVars, hmVars, fwdVars>>

\* step 5, one iteration of the loop: Router.AddRoute; on error
\* router.Cleanup() and return.  `route add` fails for a route the kernel
\* already has, and may fail for any other reason (envOK)
SupAddRoute ==
  /\ pc = "addRoutes"
  /\ routeIdx <= Len(cidrBlocks)
  /\ LET cidr == cidrBlocks[routeIdx] IN
     \E envOK \in BOOLEAN, failing \in SUBSET routes :
       IF parseCIDR(cidr) /\ cidr \notin kernelRoutes /\ envOK
       THEN /\ failing = {}
            /\ kernelRoutes' = kernelRoutes \cup {cidr}
            /\ routes' = routes \cup {cidr}
            /\ routeIdx' = routeIdx + 1
            /\ UNCHANGED deleteFailed
            /\ IF routeIdx = Len(cidrBlocks)
               THEN /\ pc' = "dnsSetup"
                    /\ deferStack' = <<"router.Cleanup">> \o deferStack
               ELSE UNCHANGED <<pc, deferStack>>
            /\ UNCHANGED <<result, failStep, teardownLog>>
       ELSE /\ failing \subseteq kernelRoutes
            /\ kernelRoutes' = CleanupKernel(kernelRoutes, routes, failing)
            /\ routes' = CleanupTracked(routes, failing)
            /\ deleteFailed' = deleteFailed \cup failing
            /\ UNCHANGED routeIdx
            /\ ReturnErr("addRoutes")
  /\ UNCHANGED <<cfgVars, ctxCancelled, sigVars, tunOpen, dnsVars, sessionFile, tunnelVars, hmVars, fwdVars>>

\* step 6: the resolver configuration, only with a resolver and domains;
\* a Setup error is a warning
SupDnsSetup ==
  /\ pc = "dnsSetup"
  /\ pc' = "newFwd"
  /\ IF dnsResolver # "" /\ Len(dnsDomains) > 0
     THEN \E failAt \in 0..Len(dnsDomains) :
            LET st == DnsSetup(DnsState(fsFile, fsBackup, created, FALSE), dnsDomains, failAt)
            IN /\ fsFile' = st.file
               /\ fsBackup' = st.backup
               /\ created' = st.created
               /\ macOSResolver' = TRUE
               /\ deferStack' = <<"macOSResolver.Cleanup">> \o deferStack
     ELSE UNCHANGED <<dnsVars, deferStack>>
  /\ UNCHANGED <<result, failStep, teardownLog>>
  /\ UNCHANGED <<cfgVars, ctxCancelled, sigVars, tunOpen, routeVars, sessionFile, tunnelVars, hmVars, fwdVars>>

\* step 7: forwarder.NewTunToSOCKS
SupNewFwd ==
  /\ pc = "newFwd"
  /\ \E ok \in BOOLEAN :
       IF ok THEN pc' = "startFwd" /\ UNCHANGED <<deferStack, result, failStep, teardownLog>>
       ELSE ReturnErr("newFwd")
  /\ UNCHANGED <<cfgVars, ctxCancelled, sigVars, tunOpen, routeVars, dnsVars, sessionFile, tunnelVars, hmVars, fwdVars>>

\* step 7: TunToSOCKS.Start: the packet reader and the eviction task
SupStartFwd ==
  /\ pc = "startFwd"
  /\ pc' = "saveSession"
  /\ rpPc' = "top"
  /\ ccPc' = "select"
  /\ UNCHANGED <<deferStack, result, failStep, teardownLog>>
  /\ UNCHANGED <<stopCh, rpPkt, connections, conns, emitted, packetsRead, chunksRead, now>>
  /\ UNCHANGED <<cfgVars, ctxCancelled, sigVars, tunOpen, routeVars, dnsVars, sessionFile, tunnelVars, hmVars>>

\* step 8: sessionMgr.Save (an error is a warning) and defer Remove
SupSaveSession ==
  /\ pc = "saveSession"
  /\ pc' = "notify"
  /\ \E ok \in BOOLEAN : sessionFile' = ok
  /\ deferStack' = <<"sessionMgr.Remove">> \o deferStack
  /\ UNCHANGED <<result, failStep, teardownLog>>
  /\ UNCHANGED <<cfgVars, ctxCancelled, sigVars, tunOpen, routeVars, dnsVars, tunnelVars, hmVars, fwdVars>>

\* step 9: signal.Notify, and the health monitor when auto-reconnect is on
SupNotify ==
  /\ pc = "notify"
  /\ pc' = "waitSig"
  /\ sigNotify' = TRUE
  /\ hmPc' = IF autoReconnect THEN "select" ELSE hmPc
  /\ UNCHANGED <<deferStack, result, failStep, teardownLog, sigCh, sigDelivered, retries>>
  /\ UNCHANGED <<cfgVars, ctxCancelled, tunOpen, routeVars, dnsVars, sessionFile, tunnelVars, fwdVars>>

\* an interrupt or terminate signal: queued on sigCh (capacity 1) once
\* signal.Notify has run; before that the Go runtime's default action ends
\* the process, and the kernel closes its descriptors
Signal ==
  /\ procAlive
  /\ sigDelivered' = TRUE
  /\ IF sigNotify
     THEN /\ sigCh' = 1
          /\ UNCHANGED <<supVars, tunOpen>>
     ELSE /\ pc' = "killed"
          /\ tunOpen' = IF tunOpen = "open" THEN "closed" ELSE tunOpen
          /\ UNCHANGED <<sigCh, deferStack, result, failStep, teardownLog>>
  /\ UNCHANGED <<sigNotify, cfgVars, ctxCancelled, routeVars, dnsVars, sessionFile, tunnelVars, hmVars, fwdVars>>

(***************************************************************************)
(* runStart: shutdown                                                      *)
(***************************************************************************)
\* the statements after <-sigCh, in the order of lines 360-373
ShutdownOrder_StopFirst == <<"cancel", "stopFwd", "closeTun">>

ShutdownOrder == <<"cancel", "closeTun", "stopFwd">>

StepIndex(s) == CHOOSE i \in 1..Len(ShutdownOrder) : ShutdownOrder[i] = s

\* the position after shutdown statement s: the next statement, or
\* `return nil`
AfterStep(s) ==
  IF StepIndex(s) = Len(ShutdownOrder) THEN "defers" ELSE ShutdownOrder[StepIndex(s) + 1]

Advance(s) ==
  /\ pc' = AfterStep(s)
  /\ result' = IF AfterStep(s) = "defers" THEN "ok" ELSE result
  /\ UNCHANGED <<deferStack, failStep>>

\* <-sigCh
SupWaitSig ==
  /\ pc = "waitSig"
  /\ sigCh = 1
  /\ sigCh' = 0
  /\ pc' = ShutdownOrder[1]
  /\ UNCHANGED <<deferStack, result, failStep, teardownLog, sigNotify, sigDelivered>>
  /\ UNCHANGED <<cfgVars, ctxCancelled, tunOpen, routeVars, dnsVars, sessionFile, tunnelVars, hmVars, fwdVars>>

\* cancel()
SupCancel ==
  /\ pc = "cancel"
  /\ ctxCancelled' = TRUE
  /\ Advance("cancel")
  /\ teardownLog' = Append(teardownLog, "cancel")
  /\ UNCHANGED <<cfgVars, sigVars, tunOpen, routeVars, dnsVars, sessionFile, tunnelVars, hmVars, fwdVars>>

\* tun.Close(): os.File.Close releases the descriptor whatever it returns;
\* the kernel may drop the routes bound to the interface
SupCloseTun ==
  /\ pc = "closeTun"
  /\ tunOpen' = "closed"
  /\ \E dropped \in BOOLEAN : kernelRoutes' = IF dropped THEN {} ELSE kernelRoutes
  /\ Advance("closeTun")
  /\ teardownLog' = Append(teardownLog, "tun.Close")
  /\ UNCHANGED <<routeIdx, routes, deleteFailed>>
  /\ UNCHANGED <<cfgVars, ctxCancelled, sigVars, dnsVars, sessionFile, tunnelVars, hmVars, fwdVars>>

(***************************************************************************)
(* TunToSOCKS: flows and datagrams                                         *)
(***************************************************************************)
connKey(sip, dip, sp, dp) == [srcIP |-> sip, dstIP |-> dip, srcPort |-> sp, dstPort |-> dp]

K1 == connKey("10.0.0.5", "10.0.1.10", 40000, 80)

K2 == connKey("10.0.0.5", "10.0.1.10", 40001, 80)

AllKeys == {K1, K2}

\* a TCP segment read from the interface, as handlePacket parses it
Segment(k, f, s, a, n) == [proto |-> 6, key |-> k, flags |-> f, seq |-> s, ack |-> a, plen |-> n]

\* an IPv4 datagram of another protocol (17 is UDP, 1 is ICMP) with the
\* addresses and, for UDP, the ports of k
Datagram(proto, k) == [Segment(k, 0, U32(0, 0), U32(0, 0), 0) EXCEPT !.proto = proto]

\* handlePacket, lines 186-189: is the datagram handled at all
OnlyTCP(d) == d.proto = 6

\* HandleUDPPacket: what it does with a UDP datagram: "dns" when the
\* destination port is 53 (handleDNSQuery), "drop" otherwise
HandleUDPPacket(d) == IF d.key.dstPort # 53 THEN "drop" ELSE "dns"

NoSegment == Segment(K1, 0, U32(0, 0), U32(0, 0), 0)

\* flags & bit != 0
HasFlag(flags, bit) == (flags \div bit) % 2 = 1

\* a payload: its bytes (named by where they come from) and their number
Payload(id, n) == [id |-> id, len |-> n]

NoPayload == Payload(<<>>, 0)

\* buildTCPPacket: the header fields and the payload of the datagram it
\* returns
buildTCPPacket(sip, sp, dip, dp, seqNum, ackNum, flags, payload) ==
  [srcIP |-> sip, srcPort |-> sp, dstIP |-> dip, dstPort |-> dp,
   seq |-> seqNum, ack |-> ackNum, flags |-> flags, plen |-> payload.len, data |-> payload.id]

\* sendSYNACK: from the flow's destination to its source, seq 0, ack
\* seqNum+1 in uint32
sendSYNACK_NoIncrement(key, seqNum) ==
  buildTCPPacket(key.dstIP, key.dstPort, key.srcIP, key.srcPort, U32(0, 0), seqNum, tcpSYN + tcpACK, NoPayload)

sendSYNACK(key, seqNum) ==
  buildTCPPacket(key.dstIP, key.dstPort, key.srcIP, key.srcPort, U32(0, 0), Add32(seqNum, 1), tcpSYN + tcpACK, NoPayload)

\* t.tun.Write: a write on a closed interface fails and the error is dropped
TunWrite_Prepend(em, d) == IF tunOpen = "open" THEN <<d>> \o em ELSE em

TunWrite(em, d) == IF tunOpen = "open" THEN Append(em, d) ELSE em

\* the tcpConn handleSYN builds (lines 282-289); written is what has been
\* written to its egress stream (each payload named by its segment's
\* sequence number) and rd the number of chunks read from it
NewConn(key, seqNum) ==
  [key |-> key, socksConn |-> "open", lastActive |-> now, seqNum |-> seqNum,
   ackNum |-> Add32(seqNum, 1), established |-> TRUE, closing |-> FALSE, fr |-> "run",
   written |-> <<>>, rd |-> 0]

\* tcpConn.close
ConnClose(c) == IF c.closing THEN c ELSE [c EXCEPT !.closing = TRUE, !.socksConn = "closed"]

\* closeConn: close and delete the table's entry for key, if any
CloseConnConns(cs, tbl, key) == IF tbl[key] # 0 THEN [cs EXCEPT ![tbl[key]] = ConnClose(@)] ELSE cs

CloseConnTable_Keep(tbl, key) == tbl

CloseConnTable(tbl, key) == [tbl EXCEPT ![key] = 0]

\* the select on ctx.Done() and t.stopCh in readPackets (loop top and
\* after a read error)
ShouldExit_Never(stopClosed, cancelled) == FALSE

ShouldExit(stopClosed, cancelled) == stopClosed \/ cancelled

\* wg: the tasks that have been added and have not called Done
WgCount ==
  (IF rpPc \in {"none", "done"} THEN 0 ELSE 1) + (IF ccPc \in {"none", "done"} THEN 0 ELSE 1)
  + Cardinality({i \in 1..Len(conns) : conns[i].fr = "run"})

otherFwd == <<cfgVars, supVars, ctxCancelled, sigVars, tunOpen, routeVars, dnsVars, sessionFile, tunnelVars, hmVars>>

\* readPackets: the select at the top of the loop
RpTop ==
  /\ procAlive
  /\ rpPc = "top"
  /\ rpPc' = IF ShouldExit(stopCh, ctxCancelled) THEN "done" ELSE "read"
  /\ UNCHANGED <<stopCh, rpPkt, ccPc, connections, conns, emitted, packetsRead, chunksRead, now>>
  /\ UNCHANGED otherFwd

\* readPackets: t.tun.Read fails because the interface is closed
RpReadErr ==
  /\ procAlive
  /\ rpPc = "read"
  /\ tunOpen # "open"
  /\ rpPc' = IF ShouldExit(stopCh, ctxCancelled) THEN "done" ELSE "top"
  /\ UNCHANGED <<stopCh, rpPkt, ccPc, connections, conns, emitted, packetsRead, chunksRead, now>>
  /\ UNCHANGED otherFwd

\* readPackets: t.tun.Read fails on the open interface (a transient error)
RpReadTransient ==
  /\ procAlive
  /\ rpPc = "read"
  /\ tunOpen = "open"
  /\ rpPc' = IF ShouldExit(stopCh, ctxCancelled) THEN "done" ELSE "top"
  /\ UNCHANGED <<stopCh, rpPkt, ccPc, connections, conns, emitted, packetsRead, chunksRead, now>>
  /\ UNCHANGED otherFwd

\* readPackets: a segment is read and handlePacket runs, up to its return
\* or to the dial of handleSYN
RpRead(pkts, maxPackets) ==
  /\ procAlive
  /\ rpPc = "read"
  /\ tunOpen = "open"
  /\ packetsRead < maxPackets
  /\ packetsRead' = packetsRead + 1
  /\ \E p \in pkts, writeOK \in BOOLEAN :
       IF HasFlag(p.flags, tcpRST) \/ HasFlag(p.flags, tcpFIN)
       THEN /\ writeOK
            /\ conns' = CloseConnConns(conns, connections, p.key)
            /\ connections' = CloseConnTable(connections, p.key)
            /\ rpPc' = "top"
            /\ UNCHANGED rpPkt
       ELSE IF HasFlag(p.flags, tcpSYN) /\ ~HasFlag(p.flags, tcpACK)
       THEN /\ writeOK
            /\ rpPc' = "dial"
            /\ rpPkt' = p
            /\ UNCHANGED <<conns, connections>>
       ELSE IF connections[p.key] = 0
       THEN /\ writeOK
            /\ rpPc' = "top"
            /\ UNCHANGED <<rpPkt, conns, connections>>
       ELSE LET id == connections[p.key]
                upd == [conns EXCEPT ![id].lastActive = now, ![id].seqNum = p.seq, ![id].ackNum = p.ack]
            IN /\ rpPc' = "top"
               /\ UNCHANGED rpPkt
               /\ IF p.plen > 0 /\ ~writeOK
                  THEN /\ conns' = CloseConnConns(upd, connections, p.key)
                       /\ connections' = CloseConnTable(connections, p.key)
                  ELSE /\ writeOK
                       /\ conns' = IF p.plen > 0 THEN [upd EXCEPT ![id].written = Append(@, p.seq)] ELSE upd
                       /\ UNCHANGED connections
  /\ UNCHANGED <<stopCh, ccPc, emitted, chunksRead, now>>
  /\ UNCHANGED otherFwd

\* readPackets: a datagram that is not TCP is read; handlePacket returns
\* nil at lines 186-189
RpReadOther(dgrams, maxPackets) ==
  /\ procAlive
  /\ rpPc = "read"
  /\ tunOpen = "open"
  /\ packetsRead < maxPackets
  /\ packetsRead' = packetsRead + 1
  /\ \E d \in dgrams :
       /\ ~OnlyTCP(d)
       /\ rpPkt' = d
       /\ rpPc' = "top"
  /\ UNCHANGED <<stopCh, ccPc, connections, conns, emitted, chunksRead, now>>
  /\ UNCHANGED otherFwd

\* handleSYN after a successful dial: the flow is put in the table, the
\* SYN-ACK is written and the flow's reader task is started
InstallFlow_NoSynAck ==
  /\ conns' = Append(conns, NewConn(rpPkt.key, rpPkt.seq))
  /\ connections' = [connections EXCEPT ![rpPkt.key] = Len(conns) + 1]
  /\ emitted' = emitted
  /\ rpPc' = "top"

InstallFlow ==
  /\ conns' = Append(conns, NewConn(rpPkt.key, rpPkt.seq))
  /\ connections' = [connections EXCEPT ![rpPkt.key] = Len(conns) + 1]
  /\ emitted' = TunWrite(emitted, sendSYNACK(rpPkt.key, rpPkt.seq))
  /\ rpPc' = "top"

\* handleSYN: DialContext returns
RpDial ==
  /\ procAlive
  /\ rpPc = "dial"
  /\ \E ok \in BOOLEAN :
       IF ok THEN InstallFlow
       ELSE rpPc' = "dial2" /\ UNCHANGED <<conns, connections, emitted>>
  /\ UNCHANGED <<stopCh, rpPkt, ccPc, packetsRead, chunksRead, now>>
  /\ UNCHANGED otherFwd

\* handleSYN: after a DialContext error, t.socksDialer.Dial returns
RpDial2 ==
  /\ procAlive
  /\ rpPc = "dial2"
  /\ \E ok \in BOOLEAN :
       IF ok THEN InstallFlow
       ELSE rpPc' = "top" /\ UNCHANGED <<conns, connections, emitted>>
  /\ UNCHANGED <<stopCh, rpPkt, ccPc, packetsRead, chunksRead, now>>
  /\ UNCHANGED otherFwd

\* readFromSOCKS: the stop signal is seen at the top of the loop; the
\* deferred closeConn(conn.key) and wg.Done run
FrStop(id) ==
  /\ procAlive
  /\ conns[id].fr = "run"
  /\ stopCh
  /\ conns' = [CloseConnConns(conns, connections, conns[id].key) EXCEPT ![id].fr = "done"]
  /\ connections' = CloseConnTable(connections, conns[id].key)
  /\ UNCHANGED <<stopCh, rpPc, rpPkt, ccPc, emitted, packetsRead, chunksRead, now>>
  /\ UNCHANGED otherFwd

\* readFromSOCKS: Read returns an error that is not a timeout (EOF, reset,
\* or the stream was closed); the deferred closeConn(conn.key) runs
FrEOF(id) ==
  /\ procAlive
  /\ conns[id].fr = "run"
  /\ conns' = [CloseConnConns(conns, connections, conns[id].key) EXCEPT ![id].fr = "done"]
  /\ connections' = CloseConnTable(connections, conns[id].key)
  /\ UNCHANGED <<stopCh, rpPc, rpPkt, ccPc, emitted, packetsRead, chunksRead, now>>
  /\ UNCHANGED otherFwd

\* readFromSOCKS: Read returns the next chunk of the stream, of n > 0
\* bytes; a PSH|ACK segment is written
FrData(id, n, maxChunks) ==
  /\ procAlive
  /\ conns[id].fr = "run"
  /\ conns[id].socksConn = "open"
  /\ chunksRead < maxChunks
  /\ chunksRead' = chunksRead + 1
  /\ LET c == conns[id] IN
       /\ conns' = [conns EXCEPT ![id].ackNum = Add32(c.ackNum, n), ![id].lastActive = now, ![id].rd = c.rd + 1]
       /\ emitted' = TunWrite(emitted, buildTCPPacket(c.key.dstIP, c.key.dstPort, c.key.srcIP, c.key.srcPort,
                                                      c.ackNum, c.seqNum, tcpPSH + tcpACK, Payload(<<id, c.rd + 1>>, n)))
  /\ UNCHANGED <<stopCh, rpPc, rpPkt, ccPc, connections, packetsRead, now>>
  /\ UNCHANGED otherFwd

\* cleanupConnections: ctx.Done() or stopCh
CcExit ==
  /\ procAlive
  /\ ccPc = "select"
  /\ ctxCancelled \/ stopCh
  /\ ccPc' = "done"
  /\ UNCHANGED <<stopCh, rpPc, rpPkt, connections, conns, emitted, packetsRead, chunksRead, now>>
  /\ UNCHANGED otherFwd

\* is the flow idle at time t
Idle_Early(c, t) == t - c.lastActive > connTimeout - cleanupTicker

Idle(c, t) == t - c.lastActive > connTimeout

\* time passes by one unit; when that makes the ticker of
\* cleanupConnections fire (every cleanupTicker units from Start), cleanup()
\* runs at that time and closes and deletes the idle flows
ClockStep(maxNow) ==
  /\ procAlive
  /\ ccPc = "select"
  /\ now < maxNow
  /\ now' = now + 1
  /\ IF now' % cleanupTicker = 0
     THEN LET evict == {k \in AllKeys : connections[k] # 0 /\ Idle(conns[connections[k]], now')} IN
            /\ conns' = [i \in 1..Len(conns) |->
                           IF conns[i].key \in evict /\ connections[conns[i].key] = i THEN ConnClose(conns[i]) ELSE conns[i]]
            /\ connections' = [k \in AllKeys |-> IF k \in evict THEN 0 ELSE connections[k]]
     ELSE UNCHANGED <<conns, connections>>
  /\ UNCHANGED <<stopCh, rpPc, rpPkt, ccPc, emitted, packetsRead, chunksRead>>
  /\ UNCHANGED otherFwd

\* cleanupConnections: the ticker fires and cleanup() closes and deletes
\* the idle flows.  One step stands for `ticks` firings in a row with no
\* other event in between: the earlier ones evict nothing the last one
\* does not
CcTick(ticks, maxNow) ==
  /\ procAlive
  /\ ccPc = "select"
  /\ now + ticks * cleanupTicker <= maxNow
  /\ now' = now + ticks * cleanupTicker
  /\ LET evict == {k \in AllKeys : connections[k] # 0 /\ Idle(conns[connections[k]], now')} IN
       /\ conns' = [i \in 1..Len(conns) |->
                      IF conns[i].key \in evict /\ connections[conns[i].key] = i THEN ConnClose(conns[i]) ELSE conns[i]]
       /\ connections' = [k \in AllKeys |-> IF k \in evict THEN 0 ELSE connections[k]]
  /\ UNCHANGED <<stopCh, rpPc, rpPkt, ccPc, emitted, packetsRead, chunksRead>>
  /\ UNCHANGED otherFwd

\* TunToSOCKS.Stop up to the wait: close(stopCh), close every flow of the
\* table and replace the table by an empty one
StopEffects ==
  /\ stopCh' = TRUE
  /\ conns' = [i \in 1..Len(conns) |->
                 IF connections[conns[i].key] = i THEN ConnClose(conns[i]) ELSE conns[i]]
  /\ connections' = [k \in AllKeys |-> 0]
  /\ UNCHANGED <<rpPc, rpPkt, ccPc, emitted, packetsRead, chunksRead, now>>

\* tunToSocks.Stop() in runStart
SupStopFwd ==
  /\ pc = "stopFwd"
  /\ pc' = "stopWait"
  /\ StopEffects
  /\ UNCHANGED <<deferStack, result, failStep, teardownLog>>
  /\ UNCHANGED <<cfgVars, ctxCancelled, sigVars, tunOpen, routeVars, dnsVars, sessionFile, tunnelVars, hmVars>>

\* TunToSOCKS.Stop: wg.Wait() returned, or 5 s elapsed
SupStopWait ==
  /\ pc = "stopWait"
  /\ \E via \in {"done", "timeout"} : via = "done" => WgCount = 0
  /\ Advance("stopFwd")
  /\ teardownLog' = Append(teardownLog, "tunToSocks.Stop")
  /\ UNCHANGED <<cfgVars, ctxCancelled, sigVars, tunOpen, routeVars, dnsVars, sessionFile, tunnelVars, hmVars, fwdVars>>

(***************************************************************************)
(* runStart: the deferred calls                                            *)
(***************************************************************************)
\* the next deferred call other than sshTunnel.Stop (see TunnelStopBegin)
RunDefer ==
  /\ pc = "defers"
  /\ deferStack # <<>>
  /\ Head(deferStack) # "sshTunnel.Stop"
  /\ deferStack' = Tail(deferStack)
  /\ teardownLog' = Append(teardownLog, Head(deferStack))
  /\ UNCHANGED <<pc, result, failStep>>
  /\ LET d == Head(deferStack) IN
       /\ sessionFile' = IF d = "sessionMgr.Remove" THEN FALSE ELSE sessionFile
       /\ ctxCancelled' = IF d = "cancel" THEN TRUE ELSE ctxCancelled
       /\ IF d = "macOSResolver.Cleanup"
          THEN LET st == DnsCleanup(DnsState(fsFile, fsBackup, created, FALSE))
               IN /\ fsFile' = st.file
                  /\ fsBackup' = st.backup
                  /\ created' = st.created
                  /\ UNCHANGED macOSResolver
          ELSE UNCHANGED dnsVars
       /\ IF d = "router.Cleanup"
          THEN \E failing \in SUBSET (routes \cap kernelRoutes) :
                 /\ kernelRoutes' = CleanupKernel(kernelRoutes, routes, failing)
                 /\ routes' = CleanupTracked(routes, failing)
                 /\ deleteFailed' = deleteFailed \cup failing
                 /\ UNCHANGED routeIdx
          ELSE UNCHANGED routeVars
  /\ UNCHANGED <<cfgVars, sigVars, tunOpen, tunnelVars, hmVars, fwdVars>>

\* runStart returns: the process exits
SupReturn ==
  /\ pc = "defers"
  /\ deferStack = <<>>
  /\ pc' = "returned"
  /\ UNCHANGED <<deferStack, result, failStep, teardownLog>>
  /\ UNCHANGED <<cfgVars, ctxCancelled, sigVars, tunOpen, routeVars, dnsVars, sessionFile, tunnelVars, hmVars, fwdVars>>

(***************************************************************************)
(* Specifications                                                          *)
(***************************************************************************)
\* the --cidr lists of the model: MaxCidrs valid blocks, and the same list
\* with an invalid last block
CidrConfigs ==
  {[i \in 1..MaxCidrs |-> ValidCidr(i)],
   [i \in 1..MaxCidrs |-> IF i = MaxCidrs THEN InvalidCidr ELSE ValidCidr(i)]}

\* the --dns-domains lists of the model
DnsConfigs == {<<>>, <<Pattern(TRUE, "corp.example", FALSE)>>}

\* no netmask has been looked up on its own
NmIdle ==
  /\ nmCidr = <<>>
  /\ nmAdd = <<>>
  /\ nmDel = <<>>

AuxIdle == NmIdle

\* no packet builder has been called on its own
CkIdle ==
  /\ ckIn = <<>>
  /\ ckOut = <<>>

\* the suffix filter at rest: handlePacket never reaches the DNS path, so
\* the runs of the tracker leave the filter alone
ResolverIdle ==
  /\ resolverDomains = <<>>
  /\ qname = <<>>
  /\ handled = "none"
  /\ dnsCache = {}
  /\ upstreamConns = <<>>
  /\ udpPkt = NoSegment
  /\ udpResult = "none"

InitFwdIdle ==
  /\ stopCh = FALSE
  /\ rpPc = "none"
  /\ rpPkt = NoSegment
  /\ ccPc = "none"
  /\ connections = [k \in AllKeys |-> 0]
  /\ conns = <<>>
  /\ emitted = <<>>
  /\ packetsRead = 0
  /\ chunksRead = 0
  /\ now = 0

InitTunnelIdle ==
  /\ running = FALSE
  /\ keyPair = 0
  /\ keysOnDisk = {}
  /\ nextKey = 1
  /\ child = "none"
  /\ tunnelStopCh = FALSE
  /\ stoppedCh = FALSE
  /\ tMu = "free"
  /\ startCaller = "none"
  /\ monWaiting = FALSE
  /\ monClosing = 0
  /\ stopVia = "none"
  /\ hmPc = "off"
  /\ retries = 0

Init ==
  /\ cidrBlocks \in CidrConfigs
  /\ dnsResolver \in {"", "10.0.0.2:53"}
  /\ dnsDomains \in DnsConfigs
  /\ dnsResolver = "" <=> dnsDomains = <<>>
  /\ dnsDomains = <<>> => fsFile = [b \in Bases |-> "absent"]
  /\ autoReconnect \in BOOLEAN
  /\ maxRetries \in {0, 1}
  /\ ~autoReconnect => maxRetries = 0
  /\ hasUserKey \in BOOLEAN
  /\ ResolverIdle
  /\ pc = "init"
  /\ deferStack = <<"cancel">>
  /\ result = "none"
  /\ failStep = "none"
  /\ teardownLog = <<>>
  /\ ctxCancelled = FALSE
  /\ sigNotify = FALSE
  /\ sigCh = 0
  /\ sigDelivered = FALSE
  /\ tunOpen = "none"
  /\ routeIdx = 1
  /\ routes = {}
  /\ kernelRoutes = {}
  /\ deleteFailed = {}
  /\ macOSResolver = FALSE
  /\ created = <<>>
  /\ fsFile \in [Bases -> {"absent", "orig"}]
  /\ fsBackup = [b \in Bases |-> "absent"]
  /\ fsBefore = fsFile
  /\ routerRet = "none"
  /\ CkIdle
  /\ AuxIdle
  /\ sessionFile = FALSE
  /\ InitTunnelIdle
  /\ InitFwdIdle

Next ==
  \/ SupFindInstance
  \/ StartBegin("sup")
  \/ StartBegin("hm")
  \/ StartFinish
  \/ ChildExit
  \/ MonitorExit
  \/ MonitorClose
  \/ SupCreateTUN
  \/ SupConfigureTUN
  \/ SupAddRoute
  \/ SupDnsSetup
  \/ SupNewFwd
  \/ SupStartFwd
  \/ SupSaveSession
  \/ SupNotify
  \/ Signal
  \/ SupWaitSig
  \/ SupCancel
  \/ SupCloseTun
  \/ SupStopFwd
  \/ SupStopWait
  \/ RunDefer
  \/ TunnelStopBegin
  \/ TunnelStopFinish
  \/ SupReturn
  \/ HmCtxDone
  \/ HmTick
  \/ RpTop
  \/ RpReadErr
  \/ RpReadTransient
  \/ CcExit

Spec == Init /\ [][Next]_vars

(***************************************************************************)
(* The run loop and the shutdown sequence, with traffic                    *)
(***************************************************************************)
\* the state in which runStart waits for a signal after a successful
\* startup: tunnel running on an ephemeral key, interface open, routes
\* installed, session saved, tracker started, no health monitor
InitUp ==
  /\ cidrBlocks = [i \in 1..1 |-> ValidCidr(i)]
  /\ dnsResolver = ""
  /\ dnsDomains = <<>>
  /\ hasUserKey = FALSE
  /\ ResolverIdle
  /\ pc = "waitSig"
  /\ deferStack = <<"sessionMgr.Remove", "router.Cleanup", "sshTunnel.Stop", "cancel">>
  /\ result = "none"
  /\ failStep = "none"
  /\ teardownLog = <<>>
  /\ ctxCancelled = FALSE
  /\ sigNotify = TRUE
  /\ sigCh = 0
  /\ sigDelivered = FALSE
  /\ tunOpen = "open"
  /\ routeIdx = 2
  /\ routes = {ValidCidr(1)}
  /\ kernelRoutes = {ValidCidr(1)}
  /\ deleteFailed = {}
  /\ macOSResolver = FALSE
  /\ created = <<>>
  /\ fsFile = [b \in Bases |-> "absent"]
  /\ fsBackup = [b \in Bases |-> "absent"]
  /\ fsBefore = fsFile
  /\ routerRet = "none"
  /\ CkIdle
  /\ AuxIdle
  /\ sessionFile = TRUE
  /\ running = TRUE
  /\ keyPair = 1
  /\ keysOnDisk = {1}
  /\ nextKey = 2
  /\ child = "running"
  /\ tunnelStopCh = FALSE
  /\ stoppedCh = FALSE
  /\ tMu = "free"
  /\ startCaller = "none"
  /\ monWaiting = TRUE
  /\ monClosing = 0
  /\ stopVia = "none"
  /\ retries = 0
  /\ stopCh = FALSE
  /\ rpPc = "top"
  /\ rpPkt = NoSegment
  /\ ccPc = "select"
  /\ connections = [k \in AllKeys |-> 0]
  /\ conns = <<>>
  /\ emitted = <<>>
  /\ packetsRead = 0
  /\ chunksRead = 0
  /\ now = 0

InitShutdown ==
  /\ InitUp
  /\ autoReconnect = FALSE
  /\ maxRetries = 0
  /\ hmPc = "off"

\* what the interface delivers in this specification
SegmentsShutdown ==
  {Segment(K1, tcpSYN, U32(65535, 65535), U32(0, 0), 0),
   Segment(K1, tcpPSH + tcpACK, U32(0, 0), U32(0, 1), 3)}

NextShutdown ==
  \/ Signal
  \/ SupWaitSig
  \/ SupCancel
  \/ SupCloseTun
  \/ SupStopFwd
  \/ SupStopWait
  \/ RpTop
  \/ RpReadErr
  \/ RpReadTransient
  \/ RpRead(SegmentsShutdown, MaxPackets)
  \/ RpDial
  \/ RpDial2
  \/ \E id \in 1..Len(conns) : FrStop(id)
  \/ \E id \in 1..Len(conns) : FrEOF(id)
  \/ \E id \in 1..Len(conns) : FrData(id, 5, MaxChunks)
  \/ CcExit

SpecShutdown == InitShutdown /\ [][NextShutdown]_vars

\* goroutines that can run are scheduled; a dial returns (DialContext has a
\* 30 s deadline); a read on the closed interface returns; Stop's wait ends
\* (it has a 5 s cap)
FairShutdown ==
  /\ WF_vars(SupWaitSig \/ SupCancel \/ SupCloseTun \/ SupStopFwd \/ SupStopWait)
  /\ WF_vars(RpTop \/ RpReadErr \/ RpDial \/ RpDial2)
  /\ WF_vars(\E id \in 1..Len(conns) : FrStop(id))
  /\ WF_vars(CcExit)

LiveShutdown == SpecShutdown /\ FairShutdown

(***************************************************************************)
(* A run that is up with --auto-reconnect: the health monitor              *)
(***************************************************************************)
\* runStart waits for a signal and monitorTunnelHealth has been started
\* (line 352); --max-retries is 0 (no limit) or 1
InitMonitor ==
  /\ InitUp
  /\ autoReconnect = TRUE
  /\ maxRetries \in {0, 1}
  /\ hmPc = "select"

NextMonitor ==
  \/ Signal
  \/ SupWaitSig
  \/ SupCancel
  \/ SupCloseTun
  \/ SupStopFwd
  \/ SupStopWait
  \/ ChildExit
  \/ MonitorExit
  \/ MonitorClose
  \/ HmCtxDone
  \/ HmTick
  \/ StartBegin("hm")
  \/ StartFinish
  \/ RpTop
  \/ RpReadErr
  \/ RpReadTransient
  \/ CcExit

SpecMonitor == InitMonitor /\ [][NextMonitor]_vars

\* goroutines that can run are scheduled; the ticker of the health monitor
\* ticks; a Start that has begun ends. No signal has to arrive
FairMonitor ==
  /\ WF_vars(SupWaitSig \/ SupCancel \/ SupCloseTun \/ SupStopFwd \/ SupStopWait)
  /\ WF_vars(HmCtxDone \/ HmTick \/ StartBegin("hm") \/ StartFinish)
  /\ WF_vars(MonitorExit \/ MonitorClose)

LiveMonitor == SpecMonitor /\ FairMonitor

(***************************************************************************)
(* The connection tracker alone                                            *)
(***************************************************************************)
\* TunToSOCKS.Stop called by the tracker's owner
FwdStop ==
  /\ pc = "fwd"
  /\ pc' = "fwdStopWait"
  /\ StopEffects
  /\ UNCHANGED <<deferStack, result, failStep, teardownLog>>
  /\ UNCHANGED <<cfgVars, ctxCancelled, sigVars, tunOpen, routeVars, dnsVars, sessionFile, tunnelVars, hmVars>>

\* TunToSOCKS.Stop: wg.Wait() returned, or 5 s elapsed; Stop returns
FwdStopWait ==
  /\ pc = "fwdStopWait"
  /\ \E via \in {"done", "timeout"} : via = "done" => WgCount = 0
  /\ pc' = "fwdStopped"
  /\ UNCHANGED <<deferStack, result, failStep, teardownLog>>
  /\ UNCHANGED <<cfgVars, ctxCancelled, sigVars, tunOpen, routeVars, dnsVars, sessionFile, tunnelVars, hmVars, fwdVars>>

\* the segments the interface delivers: for the first flow a SYN, a
\* SYN|PSH, an ACK, a PSH|ACK with 3 bytes, a FIN|ACK and a RST; for the
\* second flow a SYN
SegmentsFwd ==
  {Segment(K1, f, U32(0, 12345), U32(0, 0), 0) : f \in {tcpSYN, tcpSYN + tcpPSH}}
  \cup {Segment(K1, f, U32(0, 12346), U32(0, 1), IF f = tcpPSH + tcpACK THEN 3 ELSE 0) :
          f \in {tcpACK, tcpPSH + tcpACK, tcpFIN + tcpACK, tcpRST}}
  \cup {Segment(K2, tcpSYN, U32(0, 12345), U32(0, 0), 0)}

InitFwdRun ==
  /\ cidrBlocks = [i \in 1..1 |-> ValidCidr(i)]
  /\ dnsDomains = <<>>
  /\ autoReconnect = FALSE
  /\ maxRetries = 0
  /\ hasUserKey = FALSE
  /\ pc = "fwd"
  /\ deferStack = <<>>
  /\ result = "none"
  /\ failStep = "none"
  /\ teardownLog = <<>>
  /\ ctxCancelled = FALSE
  /\ sigNotify = FALSE
  /\ sigCh = 0
  /\ sigDelivered = FALSE
  /\ tunOpen = "open"
  /\ routeIdx = 1
  /\ routes = {}
  /\ kernelRoutes = {}
  /\ deleteFailed = {}
  /\ macOSResolver = FALSE
  /\ created = <<>>
  /\ fsFile = [b \in Bases |-> "absent"]
  /\ fsBackup = [b \in Bases |-> "absent"]
  /\ fsBefore = fsFile
  /\ routerRet = "none"
  /\ CkIdle
  /\ AuxIdle
  /\ sessionFile = FALSE
  /\ InitTunnelIdle
  /\ stopCh = FALSE
  /\ rpPc = "top"
  /\ rpPkt = NoSegment
  /\ ccPc = "select"
  /\ connections = [k \in AllKeys |-> 0]
  /\ conns = <<>>
  /\ emitted = <<>>
  /\ packetsRead = 0
  /\ chunksRead = 0
  /\ now = 0

InitFwd == InitFwdRun /\ dnsResolver = "" /\ ResolverIdle

NextFwd ==
  \/ RpTop
  \/ RpReadTransient
  \/ RpRead(SegmentsFwd, MaxPackets)
  \/ RpDial
  \/ RpDial2
  \/ \E id \in 1..Len(conns) : FrStop(id)
  \/ \E id \in 1..Len(conns) : FrEOF(id)
  \/ \E id \in 1..Len(conns), n \in {5} : FrData(id, n, MaxChunks)
  \/ CcExit
  \/ CcTick(TickJump, MaxNow)
  \/ FwdStop
  \/ FwdStopWait

SpecFwd == InitFwd /\ [][NextFwd]_vars

(***************************************************************************)
(* SpecData: the tracker's data path on an open interface                  *)
(***************************************************************************)
\* the segments the interface delivers: for the first flow a SYN and two
\* payload segments; for the second flow a SYN
SegmentsData ==
  {Segment(K1, tcpSYN, U32(0, 12345), U32(0, 0), 0),
   Segment(K1, tcpPSH + tcpACK, U32(0, 12346), U32(0, 1), 3),
   Segment(K1, tcpPSH + tcpACK, U32(0, 12349), U32(0, 1), 4),
   Segment(K2, tcpSYN, U32(0, 12345), U32(0, 0), 0)}

\* the length of the k-th chunk an egress stream delivers: 5 bytes, then 3,
\* and so on
ChunkLen(k) == IF k % 2 = 1 THEN 5 ELSE 3

NextData ==
  \/ RpTop
  \/ RpReadTransient
  \/ RpRead(SegmentsData, MaxDataPackets)
  \/ RpDial
  \/ RpDial2
  \/ \E id \in 1..Len(conns) : FrEOF(id)
  \/ \E id \in 1..Len(conns) : FrData(id, ChunkLen(conns[id].rd + 1), MaxDataChunks)

SpecData == InitFwd /\ [][NextData]_vars

(***************************************************************************)
(* SpecEvict: the tracker on an open interface, with the clock             *)
(***************************************************************************)
\* the segments the interface delivers: a SYN and an ACK of the same flow;
\* MaxEvictEvents bounds the segments and chunks read, taken together
SegmentsEvict ==
  {Segment(K1, tcpSYN, U32(0, 12345), U32(0, 0), 0),
   Segment(K1, tcpACK, U32(0, 12346), U32(0, 1), 0)}

NextEvict ==
  \/ RpTop
  \/ RpReadTransient
  \/ RpRead(SegmentsEvict, MaxEvictEvents - chunksRead)
  \/ RpDial
  \/ RpDial2
  \/ \E id \in 1..Len(conns) : FrData(id, 5, MaxEvictEvents - packetsRead)
  \/ ClockStep(MaxClock)

SpecEvict == InitFwd /\ [][NextEvict]_vars

(***************************************************************************)
(* SpecDispatch: the tracker fed with TCP, UDP and ICMP datagrams          *)
(***************************************************************************)
\* a DNS query to the resolver, another UDP datagram, an ICMP datagram
KDns == connKey("10.0.0.5", "10.0.0.2", 40002, 53)

KNtp == connKey("10.0.0.5", "10.0.1.10", 40003, 123)

DatagramsDispatch == {Datagram(17, KDns), Datagram(17, KNtp), Datagram(1, K1)}

SegmentsDispatch == {Segment(K1, tcpSYN, U32(0, 12345), U32(0, 0), 0)}

NextDispatch ==
  \/ RpTop
  \/ RpReadTransient
  \/ RpRead(SegmentsDispatch, MaxDispatchPackets)
  \/ RpReadOther(DatagramsDispatch, MaxDispatchPackets)
  \/ RpDial
  \/ RpDial2
  \/ \E id \in 1..Len(conns) : FrEOF(id)

SpecDispatch == InitFwd /\ [][NextDispatch]_vars

(***************************************************************************)
(* dns.Resolver: the suffix filter. Strings are sequences of characters.   *)
(***************************************************************************)
Dot == <<".">>

\* strings.ToLower, on the letters of the model
ToLowerChar(c) == IF c = "A" THEN "a" ELSE IF c = "B" THEN "b" ELSE c

ToLower(s) == IF s = <<>> THEN <<>> ELSE [i \in 1..Len(s) |-> ToLowerChar(s[i])]

HasPrefix(s, prefix) ==
  Len(prefix) <= Len(s) /\ SubSeq(s, 1, Len(prefix)) = prefix

HasSuffix(s, suffix) ==
  Len(suffix) <= Len(s) /\ SubSeq(s, Len(s) - Len(suffix) + 1, Len(s)) = suffix

TrimPrefix(s, prefix) ==
  IF HasPrefix(s, prefix) THEN SubSeq(s, Len(prefix) + 1, Len(s)) ELSE s

TrimSuffix(s, suffix) ==
  IF HasSuffix(s, suffix) THEN SubSeq(s, 1, Len(s) - Len(suffix)) ELSE s

\* the suffix as the loop of ShouldHandle compares it
NormSuffix(suffix) == ToLower(TrimPrefix(TrimSuffix(suffix, Dot), Dot))

\* Resolver.ShouldHandle: the loop returns true at the first suffix one of
\* its three tests accepts; the third test looks at Domains[0]
ShouldHandle(Domains, name) ==
  IF Len(Domains) = 0 THEN TRUE
  ELSE LET domain == ToLower(TrimSuffix(name, Dot))
       IN \E i \in 1..Len(Domains) :
            LET suffix == NormSuffix(Domains[i])
            IN \/ domain = suffix
               \/ HasSuffix(domain, Dot \o suffix)
               \/ HasPrefix(Domains[1], Dot) /\ HasSuffix(domain, suffix)

\* ExtractDomainFromQuery joins the labels of a query with dots: a QNAME
\* has no empty label
Chars == {"a", "b", "B", "."}

WellFormedName(s) ==
  /\ s[1] # "." /\ s[Len(s)] # "."
  /\ \A i \in 1..(Len(s) - 1) : ~(s[i] = "." /\ s[i + 1] = ".")

QNames == {s \in UNION {[1..n -> Chars] : n \in 1..MaxQnameLen} : WellFormedName(s)}

\* --dns-domains values: a suffix with and without the leading dot, in
\* upper case, with a trailing dot
SuffixForms ==
  {<<"a", ".", "b">>, <<".", "a", ".", "b">>, <<"b">>, <<".", "b">>,
   <<".", "B">>, <<"a", ".", "b", ".">>}

DomainLists == UNION {[1..n -> SuffixForms] : n \in 0..MaxSuffixes}

InitDns ==
  /\ InitFwdRun
  /\ resolverDomains \in DomainLists
  /\ qname \in QNames
  /\ handled = "none"
  /\ dnsResolver = "10.0.0.2:53"
  /\ dnsCache = {}
  /\ upstreamConns = <<>>
  /\ udpPkt = NoSegment
  /\ udpResult = "none"

\* handleDNSQuery asks the resolver whether to handle the captured query
DnsShouldHandle ==
  /\ handled = "none"
  /\ handled' = IF ShouldHandle(resolverDomains, qname) THEN "true" ELSE "false"
  /\ UNCHANGED <<resolverDomains, qname, dqVars>>
  /\ UNCHANGED <<cidrBlocks, dnsResolver, dnsDomains, autoReconnect, maxRetries, hasUserKey, fsBefore, routerRet, ckVars, auxVars>>
  /\ UNCHANGED <<supVars, ctxCancelled, sigVars, tunOpen, routeVars, dnsVars, sessionFile, tunnelVars, hmVars, fwdVars>>

NextDns == DnsShouldHandle

SpecDns == InitDns /\ [][NextDns]_vars

(***************************************************************************)
(* The DNS path: HandleUDPPacket, handleDNSQuery and Resolver.Query.       *)
(***************************************************************************)
\* the bytes that follow the UDP header: hdr bytes of the 12-byte DNS header
\* (id stands for their value) and the bytes of the question after it
Query(id, hdr, body) == [id |-> id, hdr |-> hdr, body |-> body]

QueryLen(q) == q.hdr + Len(q.body)

\* queryData[:n]
QueryPrefix(q, n) ==
  IF n >= QueryLen(q) THEN q
  ELSE IF n <= q.hdr THEN Query(q.id, n, <<>>)
  ELSE Query(q.id, q.hdr, SubSeq(q.body, 1, n - q.hdr))

\* string(bytes), on the bytes of the model
ByteChar(b) ==
  IF b = 97 THEN "a" ELSE IF b = 98 THEN "b" ELSE IF b = 66 THEN "B" ELSE IF b = 46 THEN "." ELSE "?"

LabelChars(body, from, to) == [i \in 1..(to - from + 1) |-> ByteChar(body[from + i - 1])]

\* the loop of ExtractDomainFromQuery; body[pos] is query[12 + pos - 1]
RECURSIVE ExtractLabels(_, _, _)
ExtractLabels(body, pos, domain) ==
  IF pos > Len(body) THEN domain
  ELSE LET length == body[pos] IN
         IF length = 0 THEN domain
         ELSE IF length > 63 \/ pos + length > Len(body) THEN <<>>
         ELSE ExtractLabels(body, pos + 1 + length,
                            (IF domain # <<>> THEN domain \o Dot ELSE domain)
                              \o LabelChars(body, pos + 1, pos + length))

\* ExtractDomainFromQuery: the empty string is <<>>
ExtractDomainFromQuery(q) ==
  IF QueryLen(q) < 13 THEN <<>> ELSE ExtractLabels(q.body, 1, <<>>)

\* a UDP datagram read from the interface: udpHdr bytes of the 8-byte UDP
\* header are present, the length field says udpLength, rest follows
UdpDatagram(k, udpHdr, udpLength, q) ==
  [proto |-> 17, key |-> k, udpHdr |-> udpHdr, udpLength |-> udpLength, rest |-> q]

\* buildUDPPacket: the header fields and the payload of the datagram
buildUDPPacket(sip, sp, dip, dp, payload) ==
  [proto |-> 17, srcIP |-> sip, srcPort |-> sp, dstIP |-> dip, dstPort |-> dp,
   plen |-> payload.len, data |-> payload.id]

\* a connection Resolver.Query opened to the upstream server at time t: the
\* query sent, and what came back: an error, or n bytes of the response
Upstream(q, t, got, n) == [query |-> q, at |-> t, got |-> got, len |-> n]

\* getFromCache without the test of the expiry
getFromCache_NoExpiry(cache, key, t) ==
  IF \E e \in cache : e.key = key
  THEN (CHOOSE e \in cache : e.key = key).response
  ELSE NoPayload

\* getFromCache: the cached response of a key, NoPayload for nil
CacheEntry(key, response, expires) == [key |-> key, response |-> response, expires |-> expires]

getFromCache(cache, key, t) ==
  IF \E e \in cache : e.key = key /\ ~(t > e.expires)
  THEN (CHOOSE e \in cache : e.key = key).response
  ELSE NoPayload

\* addToCache: r.cache[key] = entry
addToCache(cache, key, response, t) ==
  {e \in cache : e.key # key} \cup {CacheEntry(key, response, t + cacheTTL)}

\* cleanCache: delete the entries whose expiry has passed
cleanCache(cache, t) == {e \in cache : ~(t > e.expires)}

\* the variables no step of the DNS path touches
dnsPathFrame ==
  <<resolverDomains, qname, handled, cidrBlocks, dnsResolver, dnsDomains, autoReconnect, maxRetries,
    hasUserKey, fsBefore, routerRet, ckVars, auxVars, ctxCancelled, sigVars, tunOpen, routeVars, dnsVars, sessionFile, tunnelVars, hmVars,
    stopCh, rpPkt, ccPc, connections, conns, chunksRead>>

\* what a call of HandleUDPPacket leaves behind when it emits nothing and
\* opens no connection
UdpReturn(res) ==
  /\ udpResult' = res
  /\ rpPc' = "top"
  /\ UNCHANGED <<dnsCache, upstreamConns, emitted, pc>>

\* Resolver.Query, lines 163-174: the stream holds the 2-byte length prefix
\* and the announced bytes. conn.Read(lengthBuf) returns k >= 1 of the two
\* prefix bytes and the bytes it did not fill stay zero; response has the
\* length made of lengthBuf, and conn.Read(response) returns n >= 1 bytes of
\* a buffer that is not empty and 0 bytes, without an error, of an empty one
ResponseLen(k, announced) == IF k = 2 THEN announced ELSE (announced \div 256) * 256

ReadLengths(announced) ==
  {n \in 0..announced : \E k \in 1..2 : IF ResponseLen(k, announced) = 0 THEN n = 0
                                         ELSE n \in 1..ResponseLen(k, announced)}

\* readPackets reads a UDP datagram and HandleUDPPacket handles it, down to
\* handleDNSQuery and Resolver.Query. The server answers with MaxAnswerLen
\* bytes
DnsPacket(dgrams, maxPackets) ==
  /\ procAlive
  /\ rpPc = "read"
  /\ tunOpen = "open"
  /\ packetsRead < maxPackets
  /\ packetsRead' = packetsRead + 1
  /\ \E d \in dgrams :
       /\ udpPkt' = d
       /\ IF d.udpHdr < 8 THEN UdpReturn("error")
          ELSE IF d.udpHdr + QueryLen(d.rest) < d.udpLength THEN UdpReturn("error")
          ELSE IF d.key.dstPort # 53 THEN UdpReturn("nil")
          ELSE IF d.udpLength < 8
          THEN \* udpHeader[8:udpLength]: slice bounds out of range
               /\ udpResult' = "panic"
               /\ pc' = "panicked"
               /\ UNCHANGED <<dnsCache, upstreamConns, emitted, rpPc>>
          ELSE LET queryData == QueryPrefix(d.rest, d.udpLength - 8)
                   domain == ExtractDomainFromQuery(queryData)
                   cached == getFromCache(dnsCache, queryData, now)
               IN IF dnsResolver = "" THEN UdpReturn("nil")
                  ELSE IF domain = <<>> THEN UdpReturn("nil")
                  ELSE IF ~ShouldHandle(resolverDomains, domain) THEN UdpReturn("nil")
                  ELSE IF cached # NoPayload
                  THEN /\ emitted' = TunWrite(emitted, buildUDPPacket(d.key.dstIP, d.key.dstPort,
                                                                      d.key.srcIP, d.key.srcPort, cached))
                       /\ udpResult' = "nil"
                       /\ rpPc' = "top"
                       /\ UNCHANGED <<dnsCache, upstreamConns, pc>>
                  ELSE \/ \E failure \in {"dial", "write", "read length", "read"} :
                            /\ upstreamConns' = Append(upstreamConns, Upstream(queryData, now, "error", 0))
                            /\ udpResult' = "error"
                            /\ rpPc' = "top"
                            /\ UNCHANGED <<dnsCache, emitted, pc>>
                       \/ \E n \in ReadLengths(MaxAnswerLen) :
                            LET responseData == Payload(queryData, n) IN
                              /\ upstreamConns' = Append(upstreamConns, Upstream(queryData, now, "response", n))
                              /\ dnsCache' = addToCache(dnsCache, queryData, responseData, now)
                              /\ emitted' = TunWrite(emitted, buildUDPPacket(d.key.dstIP, d.key.dstPort,
                                                                             d.key.srcIP, d.key.srcPort, responseData))
                              /\ udpResult' = "nil"
                              /\ rpPc' = "top"
                              /\ UNCHANGED pc
  /\ UNCHANGED <<now, deferStack, result, failStep, teardownLog>>
  /\ UNCHANGED dnsPathFrame

\* time passes; cleanupLoop sweeps the cache at every tick of its ticker
DnsClockStep(maxNow) ==
  /\ procAlive
  /\ now < maxNow
  /\ now' = now + 1
  /\ dnsCache' = IF now' % cacheSweep = 0 THEN cleanCache(dnsCache, now') ELSE dnsCache
  /\ UNCHANGED <<upstreamConns, udpPkt, udpResult, emitted, packetsRead, rpPc, pc,
                 deferStack, result, failStep, teardownLog>>
  /\ UNCHANGED dnsPathFrame

\* queries for the name "a" under two transaction ids, for the name "b",
\* and malformed ones: a label length of 64, a label that runs past the
\* end, no terminating zero-length label, a header cut short
QA == Query(1, 12, <<1, 97, 0>>)

QueriesDns ==
  {QA, Query(2, 12, <<1, 97, 0>>), Query(1, 12, <<1, 98, 0>>),
   Query(1, 12, <<64, 97, 0>>), Query(1, 12, <<2, 97>>), Query(1, 12, <<1, 97, 1>>),
   Query(1, 12, <<1, 97>>), Query(1, 5, <<>>)}

\* well-formed datagrams for each query, a datagram to another port, and
\* datagrams whose lengths are wrong: a UDP header cut short, a length
\* field beyond the datagram, a length field below 8
DatagramsDns ==
  {UdpDatagram(KDns, 8, 8 + QueryLen(q), q) : q \in QueriesDns}
  \cup {UdpDatagram(KNtp, 8, 8 + QueryLen(QA), QA),
        UdpDatagram(KDns, 4, 12, Query(1, 0, <<>>)),
        UdpDatagram(KDns, 8, 40, QA),
        UdpDatagram(KDns, 8, 5, QA)}

\* the resolver of a run with --dns-resolver and --dns-domains a
InitDnsPath ==
  /\ InitFwdRun
  /\ dnsResolver = "10.0.0.2:53"
  /\ resolverDomains = <<<<"a">>>>
  /\ qname = <<>>
  /\ handled = "none"
  /\ dnsCache = {}
  /\ upstreamConns = <<>>
  /\ udpPkt = NoSegment
  /\ udpResult = "none"

NextDnsPath ==
  \/ RpTop
  \/ DnsPacket(DatagramsDns, MaxDnsPackets)

SpecDnsPath == InitDnsPath /\ [][NextDnsPath]_vars

\* the cache under a clock: the query for "a" under two transaction ids
DatagramsCache ==
  {UdpDatagram(KDns, 8, 8 + QueryLen(q), q) : q \in {QA, Query(2, 12, <<1, 97, 0>>)}}

NextDnsCache ==
  \/ RpTop
  \/ DnsPacket(DatagramsCache, MaxCachePackets)
  \/ DnsClockStep(MaxDnsClock)

SpecDnsCache == InitDnsPath /\ [][NextDnsCache]_vars

(***************************************************************************)
(* MacOSResolverConfig alone: Setup, then Cleanup                          *)
(***************************************************************************)
\* --dns-domains values: one base domain with a leading dot, bare and with
\* a trailing dot, and a name without a dot, which Setup skips
DomainPatterns ==
  {Pattern(TRUE, "corp.example", FALSE), Pattern(FALSE, "corp.example", FALSE),
   Pattern(FALSE, "corp.example", TRUE), Pattern(FALSE, "localhost", FALSE)}

OsDnsConfigs == UNION {[1..n -> DomainPatterns] : n \in 1..MaxOsDomains}

\* a component called on its own: nothing of the run has started
ComponentIdle ==
  /\ autoReconnect = FALSE
  /\ maxRetries = 0
  /\ routerRet = "none"
  /\ ResolverIdle
  /\ deferStack = <<>>
  /\ result = "none"
  /\ failStep = "none"
  /\ teardownLog = <<>>
  /\ ctxCancelled = FALSE
  /\ sigNotify = FALSE
  /\ sigCh = 0
  /\ sigDelivered = FALSE
  /\ tunOpen = "none"
  /\ routeIdx = 1
  /\ routes = {}
  /\ kernelRoutes = {}
  /\ deleteFailed = {}
  /\ macOSResolver = FALSE
  /\ created = <<>>
  /\ fsBackup = [b \in Bases |-> "absent"]
  /\ sessionFile = FALSE
  /\ InitTunnelIdle
  /\ InitFwdIdle

\* the same, on a host without an SSH key of the user
HarnessIdle ==
  /\ hasUserKey = FALSE
  /\ ComponentIdle

InitOsDns ==
  /\ HarnessIdle
  /\ CkIdle
  /\ AuxIdle
  /\ cidrBlocks = [i \in 1..1 |-> ValidCidr(i)]
  /\ dnsResolver = "10.0.0.2:53"
  /\ dnsDomains \in OsDnsConfigs
  /\ pc = "dnsSetup"
  /\ fsFile \in [Bases -> {"absent", "orig"}]
  /\ fsBefore = fsFile

\* NewMacOSResolverConfig and Setup
OsDnsSetup ==
  /\ pc = "dnsSetup"
  /\ pc' = "dnsCleanup"
  /\ \E failAt \in 0..Len(dnsDomains) :
       LET st == DnsSetup(DnsState(fsFile, fsBackup, created, FALSE), dnsDomains, failAt)
       IN /\ fsFile' = st.file
          /\ fsBackup' = st.backup
          /\ created' = st.created
          /\ macOSResolver' = TRUE
  /\ UNCHANGED <<deferStack, result, failStep, teardownLog>>
  /\ UNCHANGED <<cfgVars, ctxCancelled, sigVars, tunOpen, routeVars, sessionFile, tunnelVars, hmVars, fwdVars>>

\* Cleanup
OsDnsCleanup ==
  /\ pc = "dnsCleanup"
  /\ pc' = "dnsDone"
  /\ LET st == DnsCleanup(DnsState(fsFile, fsBackup, created, FALSE))
     IN /\ fsFile' = st.file
        /\ fsBackup' = st.backup
        /\ created' = st.created
  /\ UNCHANGED <<macOSResolver, deferStack, result, failStep, teardownLog>>
  /\ UNCHANGED <<cfgVars, ctxCancelled, sigVars, tunOpen, routeVars, sessionFile, tunnelVars, hmVars, fwdVars>>

NextOsDns == OsDnsSetup \/ OsDnsCleanup

SpecOsDns == InitOsDns /\ [][NextOsDns]_vars

(***************************************************************************)
(* Router alone: AddRoute calls, then Cleanup twice                        *)
(***************************************************************************)
\* the blocks given to AddRoute, in the order of the calls
RouterCidrs ==
  UNION {[1..n -> {ValidCidr(1), ValidCidr(2), InvalidCidr}] : n \in 1..MaxRouterAdds}

InitRouter ==
  /\ HarnessIdle
  /\ CkIdle
  /\ AuxIdle
  /\ cidrBlocks \in RouterCidrs
  /\ dnsResolver = ""
  /\ dnsDomains = <<>>
  /\ pc = "addRoutes"
  /\ fsFile = [b \in Bases |-> "absent"]
  /\ fsBefore = fsFile

routerFrame ==
  <<cidrBlocks, dnsResolver, dnsDomains, autoReconnect, maxRetries, hasUserKey, fsBefore, ckVars, auxVars, rsVars,
    deferStack, result, failStep, teardownLog, ctxCancelled, sigVars, tunOpen, dnsVars, sessionFile,
    tunnelVars, hmVars, fwdVars>>

\* Router.AddRoute: the route is tracked when parseCIDR and `route add`
\* succeed; `route add` fails for a route the kernel already has
RouterAddRoute ==
  /\ pc = "addRoutes"
  /\ routeIdx <= Len(cidrBlocks)
  /\ routeIdx' = routeIdx + 1
  /\ LET cidr == cidrBlocks[routeIdx] IN
     \E envOK \in BOOLEAN :
       IF parseCIDR(cidr) /\ cidr \notin kernelRoutes /\ envOK
       THEN /\ kernelRoutes' = kernelRoutes \cup {cidr}
            /\ routes' = routes \cup {cidr}
            /\ routerRet' = "nil"
       ELSE /\ UNCHANGED <<kernelRoutes, routes>>
            /\ routerRet' = "error"
  /\ UNCHANGED <<pc, deleteFailed>>
  /\ UNCHANGED routerFrame

\* a route leaves the kernel table behind the Router's back: `route delete`
\* will answer "not in table"
RouterKernelDrop ==
  /\ pc = "addRoutes"
  /\ \E c \in kernelRoutes : kernelRoutes' = kernelRoutes \ {c}
  /\ UNCHANGED <<pc, routeIdx, routes, deleteFailed, routerRet>>
  /\ UNCHANGED routerFrame

\* Router.Cleanup, called a first and a second time
RouterCleanup ==
  /\ pc \in {"addRoutes", "cleanedOnce"}
  /\ pc' = IF pc = "addRoutes" THEN "cleanedOnce" ELSE "cleanedTwice"
  /\ \E failing \in SUBSET (routes \cap kernelRoutes) :
       /\ kernelRoutes' = CleanupKernel(kernelRoutes, routes, failing)
       /\ routes' = CleanupTracked(routes, failing)
       /\ deleteFailed' = deleteFailed \cup failing
       /\ routerRet' = IF failing = {} THEN "nil" ELSE "error"
  /\ UNCHANGED routeIdx
  /\ UNCHANGED routerFrame

NextRouter == RouterAddRoute \/ RouterKernelDrop \/ RouterCleanup

SpecRouter == InitRouter /\ [][NextRouter]_vars

(***************************************************************************)
(* The packet builders, byte by byte                                       *)
(***************************************************************************)
\* binary.BigEndian.PutUint16 and PutUint32 (a uint32 is <<high, low>>)
PutUint16(x) == <<(x \div 256) % 256, x % 256>>

PutUint32(u) == PutUint16(u[1]) \o PutUint16(u[2])

\* the summing loop of the checksum functions over the bytes from index i
\* on (i is odd): 16-bit big-endian words; a last byte without partner is
\* added as the high byte when withOdd, and skipped otherwise. The sum of a
\* datagram of up to 65535 bytes stays below 2^31, so uint32 does not wrap
RECURSIVE SumWords(_, _, _)
SumWords(bytes, i, withOdd) ==
  IF i > Len(bytes) THEN 0
  ELSE IF i + 1 <= Len(bytes) THEN bytes[i] * 256 + bytes[i + 1] + SumWords(bytes, i + 2, withOdd)
  ELSE IF withOdd THEN bytes[i] * 256 ELSE 0

\* for sum > 0xffff { sum = (sum & 0xffff) + (sum >> 16) }
RECURSIVE FoldSum(_)
FoldSum(sum) == IF sum > 65535 THEN FoldSum((sum % Two16) + (sum \div Two16)) ELSE sum

\* ^uint16(sum)
Not16(x) == 65535 - (x % Two16)

\* ipChecksum
ipChecksum(header) == Not16(FoldSum(SumWords(header, 1, FALSE)))

\* the pseudo-header followed by the segment
PseudoHeader(srcIP, dstIP, proto, segment) ==
  srcIP \o dstIP \o <<0, proto>> \o PutUint16(Len(segment) % Two16) \o segment

\* tcpChecksum without the branch for a last byte without partner
tcpChecksum_NoOddByte(srcIP, dstIP, tcpSegment) ==
  Not16(FoldSum(SumWords(PseudoHeader(srcIP, dstIP, 6, tcpSegment), 1, FALSE)))

\* tcpChecksum
tcpChecksum(srcIP, dstIP, tcpSegment) ==
  Not16(FoldSum(SumWords(PseudoHeader(srcIP, dstIP, 6, tcpSegment), 1, TRUE)))

\* udpChecksum: the checksum field of the copy is cleared first
udpChecksum(srcIP, dstIP, udpSegment) ==
  LET cleared == [i \in 1..Len(udpSegment) |-> IF i \in {7, 8} THEN 0 ELSE udpSegment[i]]
  IN Not16(FoldSum(SumWords(PseudoHeader(srcIP, dstIP, 17, cleared), 1, TRUE)))

\* the 20 bytes of the IP header the builders write, with a checksum field
IpHeaderBytes(srcIP, dstIP, totalLen, proto, checksum) ==
  <<69, 0>> \o PutUint16(totalLen % Two16) \o <<0, 0>> \o PutUint16(16384) \o <<64, proto>>
    \o PutUint16(checksum) \o srcIP \o dstIP

\* the TCP header buildTCPPacket writes, with a checksum field, and the
\* payload
TcpSegmentBytes(srcPort, dstPort, seqNum, ackNum, flags, checksum, payload) ==
  PutUint16(srcPort) \o PutUint16(dstPort) \o PutUint32(seqNum) \o PutUint32(ackNum) \o <<80, flags>>
    \o PutUint16(65535) \o PutUint16(checksum) \o <<0, 0>> \o payload

\* the UDP header buildUDPPacket writes, with a checksum field, and the
\* payload
UdpSegmentBytes(srcPort, dstPort, checksum, payload) ==
  PutUint16(srcPort) \o PutUint16(dstPort) \o PutUint16((8 + Len(payload)) % Two16) \o PutUint16(checksum)
    \o payload

\* buildTCPPacket: the bytes of the datagram
buildTCPPacketBytes(srcIP, srcPort, dstIP, dstPort, seqNum, ackNum, flags, payload) ==
  LET totalLen == 20 + 20 + Len(payload)
      ipck == ipChecksum(IpHeaderBytes(srcIP, dstIP, totalLen, 6, 0))
      tcp0 == TcpSegmentBytes(srcPort, dstPort, seqNum, ackNum, flags, 0, payload)
  IN IpHeaderBytes(srcIP, dstIP, totalLen, 6, ipck)
       \o TcpSegmentBytes(srcPort, dstPort, seqNum, ackNum, flags, tcpChecksum(srcIP, dstIP, tcp0), payload)

\* buildUDPPacket: the bytes of the datagram
buildUDPPacketBytes(srcIP, srcPort, dstIP, dstPort, payload) ==
  LET totalLen == 20 + 8 + Len(payload)
      ipck == ipChecksum(IpHeaderBytes(srcIP, dstIP, totalLen, 17, 0))
      udp0 == UdpSegmentBytes(srcPort, dstPort, 0, payload)
  IN IpHeaderBytes(srcIP, dstIP, totalLen, 17, ipck)
       \o UdpSegmentBytes(srcPort, dstPort, udpChecksum(srcIP, dstIP, udp0), payload)

\* the arguments of the calls: addresses, ports and numbers with low and
\* high bytes, payloads of every length up to MaxPayloadLen
ByteValues == {0, 1, 255}

Payloads == UNION {[1..n -> ByteValues] : n \in 0..MaxPayloadLen}

BuilderInputs ==
  [srcIP : {<<10, 0, 1, 10>>, <<255, 255, 255, 255>>}, dstIP : {<<10, 0, 0, 5>>},
   srcPort : {53, 65535}, dstPort : {40000},
   seqNum : {U32(0, 0), U32(65535, 65535)}, ackNum : {U32(0, 12346)},
   flags : {tcpSYN + tcpACK, tcpPSH + tcpACK}, payload : Payloads]

InitBuilders ==
  /\ HarnessIdle
  /\ cidrBlocks = [i \in 1..1 |-> ValidCidr(i)]
  /\ dnsResolver = ""
  /\ dnsDomains = <<>>
  /\ pc = "build"
  /\ fsFile = [b \in Bases |-> "absent"]
  /\ fsBefore = fsFile
  /\ AuxIdle
  /\ ckIn \in BuilderInputs
  /\ ckOut = <<>>

builderFrame ==
  <<cidrBlocks, dnsResolver, dnsDomains, autoReconnect, maxRetries, hasUserKey, fsBefore, routerRet, auxVars, rsVars,
    deferStack, result, failStep, teardownLog, ctxCancelled, sigVars, tunOpen, routeVars, dnsVars, sessionFile,
    tunnelVars, hmVars, fwdVars>>

\* a call of buildTCPPacket
BuildTCP ==
  /\ pc = "build"
  /\ pc' = "builtTCP"
  /\ ckOut' = buildTCPPacketBytes(ckIn.srcIP, ckIn.srcPort, ckIn.dstIP, ckIn.dstPort,
                                  ckIn.seqNum, ckIn.ackNum, ckIn.flags, ckIn.payload)
  /\ UNCHANGED ckIn
  /\ UNCHANGED builderFrame

\* a call of buildUDPPacket
BuildUDP ==
  /\ pc = "build"
  /\ pc' = "builtUDP"
  /\ ckOut' = buildUDPPacketBytes(ckIn.srcIP, ckIn.srcPort, ckIn.dstIP, ckIn.dstPort, ckIn.payload)
  /\ UNCHANGED ckIn
  /\ UNCHANGED builderFrame

NextBuilders == BuildTCP \/ BuildUDP

SpecBuilders == InitBuilders /\ [][NextBuilders]_vars

(***************************************************************************)
(* SpecOffset: handlePacket on TCP segments with any data-offset field     *)
(***************************************************************************)
\* a TCP segment as it lies in the datagram: tcpLen bytes follow the IP
\* header (tcpHeader, indices 0 .. tcpLen-1) and byte 12 holds the data
\* offset, dataOffset = 4 * its high four bits
RawSegment(k, f, s, a, tcpLen, dataOffset) ==
  [proto |-> 6, key |-> k, flags |-> f, seq |-> s, ack |-> a, plen |-> tcpLen - dataOffset,
   tcpLen |-> tcpLen, dataOffset |-> dataOffset]

\* the bytes tcpHeader[first:], written to the egress stream by one Write
Bytes(seqNum, first, tcpLen) == [seq |-> seqNum, first |-> first, last |-> tcpLen - 1]

\* the segments the interface delivers: a SYN, data and a FIN of one flow,
\* the TCP part 19 to 28 bytes long, the data offset from 0 to 60
SegmentsOffset ==
  {RawSegment(K1, f, U32(0, 12345), U32(0, 0), n, o) :
     f \in {tcpSYN, tcpACK, tcpFIN + tcpACK}, n \in {19, 20, 28}, o \in {0, 8, 20, 24, 28, 32, 60}}

\* readPackets: a TCP segment is read and handlePacket runs, up to its
\* return or to the dial of handleSYN (lines 194-257)
RpReadRaw(pkts, maxPackets) ==
  /\ procAlive
  /\ rpPc = "read"
  /\ tunOpen = "open"
  /\ packetsRead < maxPackets
  /\ packetsRead' = packetsRead + 1
  /\ \E p \in pkts, writeOK \in BOOLEAN :
       /\ rpPkt' = p
       /\ IF p.tcpLen < 20 \/ p.tcpLen < p.dataOffset
          THEN /\ writeOK
               /\ rpPc' = "top"
               /\ UNCHANGED <<conns, connections>>
          ELSE IF HasFlag(p.flags, tcpRST) \/ HasFlag(p.flags, tcpFIN)
          THEN /\ writeOK
               /\ conns' = CloseConnConns(conns, connections, p.key)
               /\ connections' = CloseConnTable(connections, p.key)
               /\ rpPc' = "top"
          ELSE IF HasFlag(p.flags, tcpSYN) /\ ~HasFlag(p.flags, tcpACK)
          THEN /\ writeOK
               /\ rpPc' = "dial"
               /\ UNCHANGED <<conns, connections>>
          ELSE IF connections[p.key] = 0
          THEN /\ writeOK
               /\ rpPc' = "top"
               /\ UNCHANGED <<conns, connections>>
          ELSE LET id == connections[p.key]
                   upd == [conns EXCEPT ![id].lastActive = now, ![id].seqNum = p.seq, ![id].ackNum = p.ack]
               IN /\ rpPc' = "top"
                  /\ IF p.tcpLen - p.dataOffset > 0 /\ ~writeOK
                     THEN /\ conns' = CloseConnConns(upd, connections, p.key)
                          /\ connections' = CloseConnTable(connections, p.key)
                     ELSE /\ writeOK
                          /\ conns' = IF p.tcpLen - p.dataOffset > 0
                                       THEN [upd EXCEPT ![id].written = Append(@, Bytes(p.seq, p.dataOffset, p.tcpLen))]
                                       ELSE upd
                          /\ UNCHANGED connections
  /\ UNCHANGED <<stopCh, ccPc, emitted, chunksRead, now>>
  /\ UNCHANGED otherFwd

NextOffset ==
  \/ RpTop
  \/ RpReadRaw(SegmentsOffset, MaxRawPackets)
  \/ RpDial
  \/ RpDial2

SpecOffset == InitFwd /\ [][NextOffset]_vars

(***************************************************************************)
(* SSHTunnel alone: Start called by an owner at any time                   *)
(***************************************************************************)
InitTunnel ==
  /\ ComponentIdle
  /\ hasUserKey \in BOOLEAN
  /\ CkIdle
  /\ AuxIdle
  /\ cidrBlocks = [i \in 1..1 |-> ValidCidr(i)]
  /\ dnsResolver = ""
  /\ dnsDomains = <<>>
  /\ pc = "tunnel"
  /\ fsFile = [b \in Bases |-> "absent"]
  /\ fsBefore = fsFile

\* the owner of the tunnel calls Start, whatever the state of the tunnel;
\* hmPc is the position of the owner, as for monitorTunnelHealth
TunnelCallStart ==
  /\ procAlive
  /\ hmPc \in {"off", "select"}
  /\ nextKey <= MaxKeys
  /\ hmPc' = "sleep"
  /\ UNCHANGED <<retries, cfgVars, supVars, ctxCancelled, sigVars, tunOpen, routeVars, dnsVars, sessionFile, tunnelVars, fwdVars>>

\* the owner cancels the context it gave to Start
TunnelCancel ==
  /\ procAlive
  /\ ~ctxCancelled
  /\ ctxCancelled' = TRUE
  /\ UNCHANGED <<cfgVars, supVars, sigVars, tunOpen, routeVars, dnsVars, sessionFile, tunnelVars, hmVars, fwdVars>>

NextTunnel ==
  \/ TunnelCallStart
  \/ TunnelCancel
  \/ StartBegin("hm")
  \/ StartFinish
  \/ ChildExit
  \/ MonitorExit
  \/ MonitorClose

SpecTunnel == InitTunnel /\ [][NextTunnel]_vars

(***************************************************************************)
(* The netmask of a route when it is added and when it is deleted          *)
(***************************************************************************)
\* the blocks given to --cidr: every prefix from 0 to MaxPrefix
NetmaskCidrs == {Cidr(n, p) : n \in 1..2, p \in 0..MaxPrefix}

InitNetmask ==
  /\ HarnessIdle
  /\ cidrBlocks = [i \in 1..1 |-> ValidCidr(i)]
  /\ dnsResolver = ""
  /\ dnsDomains = <<>>
  /\ pc = "netmask"
  /\ fsFile = [b \in Bases |-> "absent"]
  /\ fsBefore = fsFile
  /\ CkIdle
  /\ nmCidr \in NetmaskCidrs
  /\ nmAdd = <<>>
  /\ nmDel = <<>>

netmaskFrame ==
  <<cidrBlocks, dnsResolver, dnsDomains, autoReconnect, maxRetries, hasUserKey, fsBefore, routerRet, ckVars, rsVars,
    deferStack, result, failStep, teardownLog, ctxCancelled, sigVars, tunOpen, routeVars, dnsVars, sessionFile,
    tunnelVars, hmVars, fwdVars>>

\* Router.AddRoute: parseCIDR, then `route add -net network -netmask mask`;
\* an error of parseCIDR is returned and ends the start command
NetmaskAddRoute ==
  /\ pc = "netmask"
  /\ IF parseCIDR(nmCidr)
       THEN /\ nmAdd' = prefixToNetmask(nmCidr.prefix)
            /\ pc' = "routeAdded"
       ELSE /\ nmAdd' = <<>>
            /\ pc' = "routeRejected"
  /\ UNCHANGED <<nmCidr, nmDel>>
  /\ UNCHANGED netmaskFrame

\* Router.Cleanup for the tracked route: parseCIDR, then `route delete`
NetmaskRouterCleanup ==
  /\ pc = "routeAdded"
  /\ pc' = "routeCleaned"
  /\ nmDel' = prefixToNetmask(nmCidr.prefix)
  /\ UNCHANGED <<nmCidr, nmAdd>>
  /\ UNCHANGED netmaskFrame

\* the stop command's removeRoute for a block of the saved session:
\* parseCIDRForRoute, then `route delete`
NetmaskRemoveRoute ==
  /\ pc = "routeAdded"
  /\ pc' = "routeRemoved"
  /\ nmDel' = parseCIDRForRoute(nmCidr)
  /\ UNCHANGED <<nmCidr, nmAdd>>
  /\ UNCHANGED netmaskFrame

NextNetmask == NetmaskAddRoute \/ NetmaskRouterCleanup \/ NetmaskRemoveRoute

SpecNetmask == InitNetmask /\ [][NextNetmask]_vars

(***************************************************************************)
(* Properties                                                              *)
(***************************************************************************)
\* resolver files written by this run
OurResolverFiles == {b \in Bases : fsFile[b] = "ssm"}

\* position of a teardown step in the log (0: it did not run)
Pos(log, name) == IF \E i \in 1..Len(log) : log[i] = name THEN CHOOSE i \in 1..Len(log) : log[i] = name ELSE 0

\* if both steps ran, a ran first
Before(log, a, b) == (Pos(log, a) # 0 /\ Pos(log, b) # 0) => Pos(log, a) < Pos(log, b)

\* C1: TunToSOCKS.Stop (which joins the packet reader) is only ever called
\* with the interface closed and the context cancelled, and runStart closes
\* the interface only after it cancelled the context.
C1_CloseBeforeJoin ==
  /\ stopCh => (tunOpen = "closed" /\ ctxCancelled)
  /\ (tunOpen = "closed" /\ pc # "killed") => ctxCancelled

\* the join of the tasks has begun while the packet reader is still running
C1_Witness == pc = "stopWait" /\ stopCh /\ tunOpen = "closed" /\ rpPc \in {"top", "read"}

C3_RollbackComplete ==
  (pc = "returned" /\ result = "error") =>
    /\ ~running
    /\ child # "running"
    /\ tunOpen # "open"
    /\ kernelRoutes = {}
    /\ OurResolverFiles = {}

C5_NoKeyAfterShutdown == (pc = "returned" /\ result = "ok") => keysOnDisk = {}

\* C6: every kernel route of this run is tracked by the Router, and after
\* shutdown none is left.
C6_RoutesTracked ==
  /\ kernelRoutes \subseteq routes
  /\ (pc = "returned" /\ result = "ok") => kernelRoutes = {}

\* C7: teardown order: tracker, OS DNS, routes, tunnel, and the session
\* record last.
C7_TeardownOrder ==
  (pc = "returned" /\ result = "ok") =>
    /\ Before(teardownLog, "tunToSocks.Stop", "macOSResolver.Cleanup")
    /\ Before(teardownLog, "tunToSocks.Stop", "router.Cleanup")
    /\ Before(teardownLog, "macOSResolver.Cleanup", "router.Cleanup")
    /\ Before(teardownLog, "router.Cleanup", "sshTunnel.Stop")
    /\ Before(teardownLog, "macOSResolver.Cleanup", "sessionMgr.Remove")
    /\ Before(teardownLog, "router.Cleanup", "sessionMgr.Remove")
    /\ Before(teardownLog, "sshTunnel.Stop", "sessionMgr.Remove")

\* C8: when a process that received a signal has ended, every resource it
\* created is released.
C8_SignalReleasesAll ==
  (sigDelivered /\ ~procAlive) =>
    /\ child # "running"
    /\ keysOnDisk = {}
    /\ tunOpen # "open"
    /\ kernelRoutes = {}
    /\ OurResolverFiles = {}
    /\ ~sessionFile

\* C9: a SYN for a key that has a flow starts no dial, and leaves the
\* table, the flows and the interface untouched.
C9_DuplicateSynIgnored ==
  [][/\ (rpPc = "read" /\ rpPc' = "dial") => connections[rpPkt'.key] = 0
     /\ (rpPc \in {"dial", "dial2"} /\ rpPc' # rpPc /\ connections[rpPkt.key] # 0) =>
          (connections' = connections /\ conns' = conns /\ emitted' = emitted)]_vars

\* d is the reply to a SYN with sequence number s on flow k: SYN|ACK, from
\* the destination to the source, ack = s + 1 in uint32
IsSynAck(d, k, s) ==
  /\ d.flags = tcpSYN + tcpACK
  /\ d.srcIP = k.dstIP /\ d.srcPort = k.dstPort
  /\ d.dstIP = k.srcIP /\ d.dstPort = k.srcPort
  /\ d.ack = IF s = U32(65535, 65535) THEN U32(0, 0) ELSE IF s[2] = 65535 THEN U32(s[1] + 1, 0) ELSE U32(s[1], s[2] + 1)
  /\ d.plen = 0

IsDataOf(d, id) == d.flags = tcpPSH + tcpACK /\ d.plen > 0 /\ d.data[1] = id

\* C11: with only the SYN read from the interface, the first chunk of the
\* flow is emitted with seq = 0 and ack = s + 1, and the second with seq =
\* the length of the first.
C11_FirstChunks ==
  [][(/\ packetsRead = 1
      /\ Len(conns) = 1
      /\ Len(emitted') = Len(emitted) + 1
      /\ IsDataOf(emitted'[Len(emitted')], 1)) =>
       LET d == emitted'[Len(emitted')] IN
         /\ d.ack = Add32(rpPkt.seq, 1)
         /\ d.seq = IF conns[1].rd = 0 THEN U32(0, 0) ELSE U32(0, emitted[Len(emitted)].plen)]_vars

\* C12: of two data segments emitted one after the other for the same
\* flow, the second's seq is the first's seq plus the first's payload
\* length, in uint32.
C12_SeqAdvance ==
  \A i, j \in 1..Len(emitted) :
    (/\ i < j
     /\ \E id \in 1..Len(conns) :
          /\ IsDataOf(emitted[i], id)
          /\ IsDataOf(emitted[j], id)
          /\ emitted[j].data[2] = emitted[i].data[2] + 1) =>
      emitted[j].seq = Add32(emitted[i].seq, emitted[i].plen)

\* C13: every key of the table maps to a flow that was built after a
\* successful dial, for that key, and whose egress stream is open.
C13_TableFlowsOpen ==
  \A k \in AllKeys :
    connections[k] # 0 =>
      /\ connections[k] \in 1..Len(conns)
      /\ conns[connections[k]].key = k
      /\ conns[connections[k]].socksConn = "open"
      /\ ~conns[connections[k]].closing

\* one flow is in the table while another has been closed and removed
C13_Witness ==
  \E i, j \in 1..Len(conns) :
    /\ connections[conns[i].key] = i
    /\ conns[j].closing
    /\ connections[conns[j].key] # j

\* C14: a flow whose egress stream is open is the table's entry for its key.
C14_NoOrphanStream ==
  \A i \in 1..Len(conns) : conns[i].socksConn = "open" => connections[conns[i].key] = i

\* C15: a payload is written to a flow's egress stream in the step that
\* read its segment from the interface, after everything written before;
\* and the chunks of a flow appear on the interface in the order they were
\* read from its egress stream.
C15_Ordering ==
  /\ [][\A id \in 1..Len(conns) :
          \/ conns'[id].written = conns[id].written
          \/ /\ packetsRead' = packetsRead + 1
             /\ conns'[id].written = Append(conns[id].written, conns'[id].seqNum)]_vars
  /\ [](\A i, j \in 1..Len(emitted) :
          (/\ i < j
           /\ \E id \in 1..Len(conns) : IsDataOf(emitted[i], id) /\ IsDataOf(emitted[j], id)) =>
            emitted[i].data[2] < emitted[j].data[2])

\* a flow has had two payloads written to its stream, in the order they
\* were read, and two chunks emitted
C15_Witness ==
  \E id \in 1..Len(conns) :
    /\ conns[id].written = <<U32(0, 12346), U32(0, 12349)>>
    /\ Cardinality({i \in 1..Len(emitted) : IsDataOf(emitted[i], id)}) = 2

\* number of SYN|ACK segments for key k among the first n emitted
SynAcksBefore(k, n) ==
  Cardinality({i \in 1..n : /\ emitted[i].flags = tcpSYN + tcpACK
                            /\ emitted[i].srcIP = k.dstIP /\ emitted[i].srcPort = k.dstPort
                            /\ emitted[i].dstIP = k.srcIP /\ emitted[i].dstPort = k.srcPort})

C17_EvictionWindow ==
  /\ [][\A k \in AllKeys :
          (now' # now /\ connections[k] # 0 /\ connections'[k] = 0) =>
            now' - conns[connections[k]].lastActive >= connTimeout]_vars
  /\ [](\A k \in AllKeys :
          connections[k] # 0 => now - conns[connections[k]].lastActive < connTimeout + cleanupTicker)

\* a flow whose last activity fell between two ticks has just been evicted,
\* at the first tick more than connTimeout later
C17_Witness ==
  \E i \in 1..Len(conns) :
    /\ conns[i].closing
    /\ conns[i].fr = "run"
    /\ connections[conns[i].key] = 0
    /\ conns[i].lastActive % cleanupTicker # 0
    /\ now % cleanupTicker = 0
    /\ now - conns[i].lastActive = connTimeout + 1

\* C18: for a key without a flow, only a segment whose flags are SYN alone
\* starts a connect; any other segment for such a key installs no flow and
\* emits nothing.
C18_UnknownFlowDropped ==
  [][/\ (rpPc = "read" /\ rpPc' = "dial" /\ connections[rpPkt'.key] = 0) => rpPkt'.flags = tcpSYN
     /\ (rpPc = "read" /\ rpPc' = "top" /\ packetsRead' = packetsRead + 1) =>
          (emitted' = emitted /\ Len(conns') = Len(conns))]_vars

\* C19: a datagram read from the interface that is not TCP changes neither
\* the table nor the flows and emits nothing at once; a UDP datagram to
\* port 53 is handed to the DNS path, any other is dropped.
C19_ProtocolDispatch ==
  [][(rpPc = "read" /\ packetsRead' = packetsRead + 1 /\ rpPkt'.proto # 6) =>
       /\ emitted' = emitted
       /\ connections' = connections
       /\ conns' = conns
       /\ rpPc' = IF rpPkt'.proto = 17 /\ HandleUDPPacket(rpPkt') = "dns" THEN "dns" ELSE "top"]_vars

\* C20: a captured query is handled if and only if the suffix list is empty
\* or its QNAME ends with one of the configured suffixes, letter case
\* ignored, and the answer is the same when the suffixes are configured
\* without their leading dots, whatever their position in the list.
\* Stated for both readings of "ends with": a match at a label boundary is
\* handled, a name that ends with no suffix at all is not.
WithoutLeadingDot(Domains) ==
  IF Domains = <<>> THEN <<>> ELSE [i \in 1..Len(Domains) |-> TrimPrefix(Domains[i], Dot)]

EndsAtLabel(name, suffix) ==
  ToLower(name) = NormSuffix(suffix) \/ HasSuffix(ToLower(name), Dot \o NormSuffix(suffix))

EndsWith(name, suffix) == HasSuffix(ToLower(name), NormSuffix(suffix))

C20_SuffixFilter ==
  handled # "none" =>
    /\ resolverDomains = <<>> => handled = "true"
    /\ (\E i \in 1..Len(resolverDomains) : EndsAtLabel(qname, resolverDomains[i])) => handled = "true"
    /\ (resolverDomains # <<>> /\ \A i \in 1..Len(resolverDomains) : ~EndsWith(qname, resolverDomains[i]))
         => handled = "false"
    /\ (handled = "true") = ShouldHandle(WithoutLeadingDot(resolverDomains), qname)

\* C21: for every UDP datagram to port 53 whose QNAME is malformed (a label
\* length above 63, a label that runs past the end of the query, or no
\* zero-length label that ends the name inside the query), no upstream
\* query is issued and no datagram is emitted.
RECURSIVE WellFormedQName(_, _)
WellFormedQName(body, pos) ==
  /\ pos <= Len(body)
  /\ \/ body[pos] = 0
     \/ /\ body[pos] <= 63
        /\ pos + body[pos] <= Len(body)
        /\ WellFormedQName(body, pos + 1 + body[pos])

IsDnsQuery(d) ==
  d.proto = 17 /\ d.key.dstPort = 53 /\ d.udpHdr = 8 /\ d.udpLength = 8 + QueryLen(d.rest)

HandledQuery(d) ==
  /\ IsDnsQuery(d)
  /\ ExtractDomainFromQuery(d.rest) # <<>>
  /\ ShouldHandle(resolverDomains, ExtractDomainFromQuery(d.rest))

FreshEntries(q) == {e \in dnsCache : e.key = q /\ now <= e.expires}

UpstreamOpened == Len(upstreamConns') = Len(upstreamConns) + 1

UpstreamGot == upstreamConns'[Len(upstreamConns')].got

ReplyTo(d, n) ==
  [proto |-> 17, srcIP |-> d.key.dstIP, srcPort |-> 53, dstIP |-> d.key.srcIP, dstPort |-> d.key.srcPort,
   plen |-> n, data |-> d.rest]

AnswersTo(q) == {i \in 1..Len(upstreamConns) : upstreamConns[i].query = q /\ upstreamConns[i].got = "response"}

RecentAnswers(q) == {i \in AnswersTo(q) : now - upstreamConns[i].at < cacheTTL}

LiveAnswers(q) == {i \in AnswersTo(q) : now - upstreamConns[i].at <= cacheTTL}

C24_RoundTrip == pc = "dnsDone" => fsFile = fsBefore

\* C25: Router.Cleanup is idempotent: after any sequence of AddRoute calls a
\* second Cleanup finds no tracked route, so it issues no deletion, leaves
\* the kernel table and the tracked set as the first call left them and
\* reports success; a tracked route that is no longer in the kernel table
\* counts as removed in the first call.
C25_CleanupIdempotent ==
  /\ [](pc = "cleanedOnce" /\ deleteFailed = {} => routerRet = "nil" /\ kernelRoutes \cap routes = {})
  /\ [][(pc = "cleanedOnce" /\ pc' = "cleanedTwice") =>
          /\ routes = {}
          /\ routes' = routes
          /\ kernelRoutes' = kernelRoutes
          /\ deleteFailed' = deleteFailed
          /\ routerRet' = "nil"]_vars

\* Cleanup has run twice after two routes were added; the first call could
\* not delete one of them
C25_Witness ==
  pc = "cleanedTwice" /\ routeIdx >= 3 /\ deleteFailed # {} /\ kernelRoutes = deleteFailed /\ routerRet = "nil"

\* C26: when the tunnel is down and the reconnection budget is exhausted
\* (max_retries > 0 failed attempts in a row), the health monitor surfaces
\* this to the run loop, which then starts the shutdown sequence without
\* waiting for a signal.
BudgetExhausted == hmPc = "done" /\ maxRetries > 0 /\ retries >= maxRetries /\ ~running

C26_ExhaustionShutsDown == BudgetExhausted ~> pc # "waitSig"

\* C27: the health monitor re-checks cancellation immediately before a
\* reconnection attempt: when the token is cancelled before the monitor
\* calls SSHTunnel.Start, also while it waits out reconnect_delay, the call
\* generates and pushes no key and spawns no child process.
C27_NoReconnectAfterCancel ==
  [][(hmPc = "sleep" /\ hmPc' # "sleep" /\ ctxCancelled) =>
       (nextKey' = nextKey /\ keyPair' = keyPair /\ keysOnDisk' = keysOnDisk /\ child' = child)]_vars

\* C28: when persisting the Session record fails during startup, startup is
\* aborted, so runStart never reaches the wait for a signal without a
\* persisted record.
C28_SaveFailureAborts == pc = "waitSig" => sessionFile

RECURSIVE OnesComplementAdd(_, _)
OnesComplementAdd(words, i) ==
  IF i > Len(words) THEN 0
  ELSE LET s == words[i] + OnesComplementAdd(words, i + 1)
       IN IF s > 65535 THEN s - 65535 ELSE s

\* the 16-bit words of a byte string, padded with a zero byte when the
\* length is odd
WordsOf(bytes) ==
  [k \in 1..((Len(bytes) + 1) \div 2) |->
     bytes[2 * k - 1] * 256 + (IF 2 * k <= Len(bytes) THEN bytes[2 * k] ELSE 0)]

OnesComplementSum(bytes) == OnesComplementAdd(WordsOf(bytes), 1)

SegmentOf(datagram) == SubSeq(datagram, 21, Len(datagram))

C30_ChecksumsValidate ==
  pc \in {"builtTCP", "builtUDP"} =>
    /\ OnesComplementSum(SubSeq(ckOut, 1, 20)) = 65535
    /\ OnesComplementSum(SubSeq(ckOut, 13, 20) \o <<0, ckOut[10]>> \o PutUint16(Len(ckOut) - 20)
                           \o SegmentOf(ckOut)) = 65535

\* a TCP datagram with a payload of odd length whose last byte is not zero
C30_Witness ==
  /\ pc = "builtTCP"
  /\ Len(ckIn.payload) % 2 = 1
  /\ ckIn.payload[Len(ckIn.payload)] = 255
  /\ ckIn.srcIP = <<255, 255, 255, 255>>
  /\ Len(ckOut) = 40 + Len(ckIn.payload)

\* the netmask with p leading one bits, as four decimal numbers
Pow2(n) == IF n = 0 THEN 1 ELSE IF n = 1 THEN 2 ELSE IF n = 2 THEN 4 ELSE IF n = 3 THEN 8 ELSE IF n = 4 THEN 16
           ELSE IF n = 5 THEN 32 ELSE IF n = 6 THEN 64 ELSE IF n = 7 THEN 128 ELSE 256

OnesInOctet(p, i) == IF p >= 8 * i THEN 8 ELSE IF p <= 8 * (i - 1) THEN 0 ELSE p - 8 * (i - 1)

LeadingOnes(p) == [i \in 1..4 |-> 256 - Pow2(8 - OnesInOctet(p, i))]

\* C31: for every prefix length from 1 to 32 the netmask of the route that
\* is added and the netmask of the route that is deleted, by Router.Cleanup
\* or by the stop command's removeRoute, are both the mask with that many
\* leading one bits; a prefix length outside 1..32 is rejected.
C31_SameNetmask ==
  /\ pc \in {"routeAdded", "routeCleaned", "routeRemoved"} =>
       /\ nmCidr.prefix \in 1..32
       /\ nmAdd = LeadingOnes(nmCidr.prefix)
  /\ pc \in {"routeCleaned", "routeRemoved"} => nmDel = nmAdd
  /\ pc = "routeRejected" => nmCidr.prefix \notin 1..32

\* the data-offset field of a segment is out of range: below the 20 bytes
\* of the fixed TCP header or beyond the segment
BadDataOffset(p) == p.dataOffset < 20 \/ p.dataOffset > p.tcpLen

\* the packet reader has read a segment and handlePacket has run
HandledSegment == rpPc = "read" /\ rpPc' # "read" /\ packetsRead' = packetsRead + 1

\* C32: a segment whose data offset is below 20 or beyond the segment is
\* dropped (no flow is touched, no connect is started, nothing is written),
\* and what is written to the egress stream of a flow never holds a byte of
\* the TCP header.
C32_DataOffsetValidated ==
  /\ [](\A i \in 1..Len(conns) : \A j \in 1..Len(conns[i].written) : conns[i].written[j].first >= 20)
  /\ [][HandledSegment /\ BadDataOffset(rpPkt') => rpPc' = "top" /\ UNCHANGED <<conns, connections, emitted>>]_vars

\* C33: a SYN leads to one SOCKS connect attempt: when the attempt under
\* the 30 s deadline and the cancellation token has returned, handling of
\* the SYN is over (flow installed, or SYN dropped) and no other connect is
\* started for it.
C33_OneConnectPerSyn == [][rpPc = "dial" /\ rpPc' # "dial" => rpPc' = "top"]_vars

\* a SOCKS connect for the flow of the SYN in rpPkt is pending while another
\* flow is in the table with its egress stream open
ConnectPendingBesideFlow ==
  /\ procAlive
  /\ rpPc \in {"dial", "dial2"}
  /\ tunOpen = "open"
  /\ packetsRead < MaxDataPackets
  /\ \E k \in AllKeys : k # rpPkt.key /\ connections[k] # 0 /\ conns[connections[k]].socksConn = "open"

\* C34: while the connect for one flow is pending, a segment of another
\* flow that arrives on the interface can be read and handled.
C34_ConnectConcurrent == ConnectPendingBesideFlow => ENABLED RpRead(SegmentsData, MaxDataPackets)

\* C35: what Resolver.Query returns and caches has exactly the number of
\* bytes the length prefix of the response announces, however the stream
\* splits the prefix and the response across reads.
C35_WholeResponse ==
  /\ \A i \in 1..Len(upstreamConns) : upstreamConns[i].got = "response" => upstreamConns[i].len = MaxAnswerLen
  /\ \A e \in dnsCache : e.response.len = MaxAnswerLen

\* a call of Start returns an error in this step
StartFails == hmPc \in {"sleep", "inStart"} /\ hmPc' = "select" /\ ~(~running /\ running')

\* C36: Start sets running only at the end of its wait for the SOCKS port,
\* with the child alive; a Start that returns an error leaves the tunnel
\* not running, the child it spawned killed and no key of its own on disk;
\* on a running tunnel it returns an error and changes nothing.
C36_StartAllOrNothing ==
  /\ [][~running /\ running' => tMu = "Start" /\ tMu' = "free" /\ child' = "running"]_vars
  /\ [][StartFails /\ ~running =>
          /\ ~running'
          /\ child' # "running"
          /\ (hmPc = "sleep" => keysOnDisk' \subseteq keysOnDisk \ {nextKey})
          /\ (hmPc = "inStart" => keysOnDisk' \subseteq keysOnDisk \ {keyPair})]_vars
  /\ [][StartFails /\ running => UNCHANGED tunnelVars]_vars

\* a Start that spawned the child and gave up has returned: child killed,
\* its key deleted, tunnel not running
C36_Witness ==
  /\ pc = "tunnel" /\ hmPc = "select"
  /\ ~running /\ child = "exited" /\ ~monWaiting /\ monClosing = 0 /\ ~stoppedCh
  /\ ~hasUserKey /\ keyPair = 1 /\ nextKey = 2 /\ keysOnDisk = {}

\* C37: whenever a monitor task of the tunnel signals completion, of the
\* first child or of one started by a restart, the channel has not been
\* signalled before, and the signal goes through.
C37_RestartableTunnel == [][monClosing' = monClosing - 1 => ~stoppedCh /\ stoppedCh' /\ pc' # "panicked"]_vars

\* Stop has killed the child and waits for the monitor task, which has not
\* recorded the exit yet
StopAwaitsMonitor == pc = "tunnelStopWait" /\ child = "exited" /\ monWaiting /\ ~stoppedCh

\* C38: while Stop waits after the kill, the monitor task can record the
\* exit of the child (and then signal completion, which ends the wait).
C38_StopJoinsMonitor == StopAwaitsMonitor => ENABLED MonitorExit

\* the reader task of flow i ends in this step
ReaderEnds(i) == conns[i].fr = "run" /\ conns'[i].fr = "done"

\* C39: when the reader task of a flow ends, every other flow keeps its
\* egress stream and its place in the table, also one installed later
\* under the same key.
C39_ReaderClosesOwnFlow ==
  [][(\A i \in 1..Len(conns) :
        ReaderEnds(i) =>
          /\ \A j \in 1..Len(conns) : j # i => conns'[j] = conns[j]
          /\ \A k \in AllKeys : connections[k] # i => connections'[k] = connections[k])]_vars

\* TunToSOCKS.Stop, called by runStart, has returned
FwdStopReturned == Pos(teardownLog, "tunToSocks.Stop") # 0

\* C40: once TunToSOCKS.Stop has returned the flow table is empty and stays
\* so, no flow is created and no reader task is started.
C40_NoFlowAfterStop ==
  /\ [](FwdStopReturned => \A k \in AllKeys : connections[k] = 0)
  /\ [][FwdStopReturned => Len(conns') = Len(conns)]_vars

====
